---- MODULE Spec2Model ----
\* A model of the competitive-intelligence backend: the provider gateway
\* (integrations/model_gateway.py), the evaluator and its quality gate
\* (agents/evaluator.py, integrations/whitecircle.py), the ingestion pipeline
\* and the action/artifact flow of the orchestrator (agents/orchestrator.py).
\*
\* Numbers with a fractional part (rubric scores, thresholds) are integers in
\* thousandths: 600 stands for 0.6.
EXTENDS Integers, Sequences, FiniteSets, TLC

VARIABLES
    \* ---- provider gateway (ModelGateway) ----
    gmode,            \* self.mode: "blaxel" or "anthropic"
    ganth,            \* self._anthropic_client is not None
    blaxel_client,    \* self._blaxel_client: 0 is None, otherwise the handle's id
    clients_created,  \* how many proxy clients _ensure_blaxel_client has built
    gpc,              \* per caller: position inside chat()
    greq,             \* per caller: the request of the call in progress
    gcalls,           \* per caller: the backend attempts of the call, in order
    gres,             \* per caller: what chat() returned or raised
    gcount,           \* number of chat() calls started
    \* ---- evaluator (EvaluatorAgent / WhiteCircleClient) ----
    ev_scores,        \* the raw rubric values the scorer's response carries
    ev_reason,        \* the flag_reason the scorer's response carries
    ev_pc,            \* "ready" or "done"
    ev_calls,         \* the scorer calls of the evaluation, in order
    ev_result,        \* what evaluate_artifact returned or raised
    whitecircle_enabled, \* the external scorer is configured
    \* ---- persistence ----
    db,               \* the session's view of the tables (flushed rows included)
    disk,             \* the committed tables
    \* ---- ingestion run (Orchestrator.ingest_sources / ingest_pdf / research_and_ingest) ----
    ing_pc,           \* position of the run
    ing_kind,         \* "ingest", "pdf" or "research"
    ing_comp,         \* competitor_id of the run
    search_results,   \* research only: what research_competitor returned
    ing_items,        \* the items to store: inputs (URLs first, raw texts after),
                      \* the PDF, or what fetch_research_results returned
    ing_idx,          \* index of the item being processed
    ing_rows,         \* per processed item: id of its Source row
    ing_outcomes,     \* per processed item: what its own fetch/parse did
    all_chunks,       \* the (chunk, url, source id) triples collected
    sources_created,  \* the run's counter
    errors,           \* the run's error entries
    raw_insights,     \* what extract_insights returned
    raw_themes,       \* what cluster_into_themes returned
    insight_objects,  \* ids of the Insight rows of the run
    ing_llm,          \* the generative calls of the run, in order
    themes_created,   \* the run's counter
    summary,          \* the returned summary, or NoSummary
    \* ---- action / artifact flow (Orchestrator.create_action_with_artifact) ----
    act_pc,           \* position of the createAction call
    act_req,          \* its arguments
    act_id,           \* id of the ActionItem it created, 0 if none
    act_art,          \* id of the Artifact it created, 0 if none
    act_gen,          \* what generate_artifact returned
    act_eval,         \* what evaluate_artifact returned
    gen_calls,        \* generation calls issued by the call
    eval_calls,       \* evaluation calls issued by the call
    llm_routes,       \* who sent a generative request of the call, through what
    act_ret,          \* what the call returned: "none", "action", "not_found"
    act_count,        \* number of createAction calls started
    \* ---- one call of a function of the collector or the clusterer ----
    fn_pc,            \* "idle", "ready" (arguments chosen) or "done"
    fn_in,            \* the arguments and what the outside world answers
    fn_out            \* what the call returned or raised

gwVars == <<gmode, ganth, blaxel_client, clients_created, gpc, greq, gcalls, gres, gcount>>

evVars == <<ev_scores, ev_reason, ev_pc, ev_calls, ev_result, whitecircle_enabled>>

dbVars == <<db, disk>>

ingVars == <<ing_pc, ing_kind, ing_comp, search_results, ing_items, ing_idx, ing_rows, ing_outcomes,
             all_chunks, sources_created, errors, raw_themes, raw_insights, insight_objects,
             ing_llm, themes_created, summary>>

actVars == <<act_pc, act_req, act_id, act_art, act_gen, act_eval, gen_calls,
             eval_calls, llm_routes, act_ret, act_count>>

fnVars == <<fn_pc, fn_in, fn_out>>

vars == <<gwVars, evVars, dbVars, ingVars, actVars, fnVars>>

\* ------------------------------------------------------------------
\* Bounds of the model
\* ------------------------------------------------------------------
NumCallers == 2

MaxCalls == 3

\* ------------------------------------------------------------------
\* Small helpers
\* ------------------------------------------------------------------
Range(s) == {s[i] : i \in 1..Len(s)}

Min(a, b) == IF a < b THEN a ELSE b

Max(a, b) == IF a > b THEN a ELSE b

\* ==================================================================
\* Provider gateway
\* ==================================================================
Callers == 1..NumCallers

MAX_TOKENS == 4096

\* chat(prompt, max_tokens, system): system is None, "" or a text.
Requests ==
    { [prompt |-> "p1", max_tokens |-> MAX_TOKENS, system |-> "none"],
      [prompt |-> "p2", max_tokens |-> 1024, system |-> "sys"],
      [prompt |-> "p1", max_tokens |-> 2048, system |-> "empty"] }

NoRequest == [prompt |-> "none", max_tokens |-> 0, system |-> "none"]

\* What one backend call does: returns a text, returns a text surrounded by
\* white space, or raises.
BackendOutcomes == {"ok", "padded", "err"}

\* The keyword arguments of messages.create; `if system:` leaves None and ""
\* out.
Kwargs(model, req) ==
    [model |-> model, max_tokens |-> req.max_tokens, content |-> req.prompt,
     system |-> IF req.system \in {"none", "empty"} THEN "absent" ELSE req.system]

Response(backend, req, o) ==
    [by |-> backend, answers |-> req.prompt, padded |-> (o = "padded")]

\* str.strip()
Strip(r) == [r EXCEPT !.padded = FALSE]

NoResult == [kind |-> "none"]

Returned(t) == [kind |-> "text", text |-> t]

Raised(who) == [kind |-> "exc", by |-> who]

Attempt(backend, req, o) ==
    [backend |-> backend,
     kwargs |-> Kwargs(IF backend = "blaxel" THEN "BLAXEL_MODEL_NAME" ELSE "CLAUDE_MODEL", req),
     outcome |-> o]

\* _chat_anthropic: one direct call, its exception propagates.
ChatAnthropic(req, so) ==
    IF so = "err" THEN Raised("anthropic")
    ELSE Returned(Strip(Response("anthropic", req, so)))

\* A faulty variant of the except branch: a failure of the fallback is
\* swallowed and the primary's exception is raised instead.
AfterPrimaryFailure_SwallowSecondary(req, exc, so) ==
    IF ganth /\ so # "err" THEN ChatAnthropic(req, so) ELSE Raised(exc)

\* The except branch of _chat_blaxel: fall back when a direct client exists,
\* otherwise re-raise the exception being handled.
AfterPrimaryFailure(req, exc, so) ==
    IF ganth THEN ChatAnthropic(req, so) ELSE Raised(exc)

\* The try block of _chat_blaxel once the proxy client exists.
ChatBlaxelTry(req, po, so) ==
    IF po = "err" THEN AfterPrimaryFailure(req, "blaxel", so)
    ELSE Returned(Strip(Response("blaxel", req, po)))

\* _chat_blaxel as a whole; eo is the outcome of _ensure_blaxel_client.
ChatBlaxel(req, eo, po, so) ==
    IF eo = "err" THEN AfterPrimaryFailure(req, "ensure", so)
    ELSE ChatBlaxelTry(req, po, so)

\* chat(): dispatch on the mode.
Chat(req, eo, po, so) ==
    IF gmode = "blaxel" THEN ChatBlaxel(req, eo, po, so) ELSE ChatAnthropic(req, so)

EnsureOutcomes == {"ok", "err"}

\* Everything one chat() call can do with a request, over the outcomes of the
\* client set-up and of the two backends.
ChatOutcomes(req) ==
    {Chat(req, eo, po, so) : eo \in EnsureOutcomes, po \in BackendOutcomes,
                             so \in BackendOutcomes}

\* The backend attempts each path makes.
FallbackAttempts(req, so) ==
    IF ganth THEN <<Attempt("anthropic", req, so)>> ELSE <<>>

\* A faulty variant: the direct backend is called after the proxied one
\* whatever the proxied one did.
BlaxelTryAttempts_AlwaysSecondary(req, po, so) ==
    <<Attempt("blaxel", req, po)>> \o FallbackAttempts(req, so)

BlaxelTryAttempts(req, po, so) ==
    <<Attempt("blaxel", req, po)>>
        \o (IF po = "err" THEN FallbackAttempts(req, so) ELSE <<>>)

GwInit ==
    /\ gmode \in {"blaxel", "anthropic"}
    /\ ganth \in BOOLEAN
    /\ (gmode = "anthropic" => ganth)       \* __init__ raises otherwise
    /\ blaxel_client = 0
    /\ clients_created = 0
    /\ gpc = [c \in Callers |-> "idle"]
    /\ greq = [c \in Callers |-> NoRequest]
    /\ gcalls = [c \in Callers |-> <<>>]
    /\ gres = [c \in Callers |-> NoResult]
    /\ gcount = 0

\* chat() in direct mode.
GwChatDirect(c, req, so) ==
    /\ gmode = "anthropic"
    /\ gpc[c] = "idle"
    /\ gcount < MaxCalls
    /\ gcount' = gcount + 1
    /\ greq' = [greq EXCEPT ![c] = req]
    /\ gcalls' = [gcalls EXCEPT ![c] = <<Attempt("anthropic", req, so)>>]
    /\ gres' = [gres EXCEPT ![c] = ChatAnthropic(req, so)]
    /\ gpc' = [gpc EXCEPT ![c] = "done"]
    /\ UNCHANGED <<gmode, ganth, blaxel_client, clients_created>>

\* chat() in proxied mode with the client already there: no suspension point
\* lies between the check and the return.
GwChatWarm(c, req, po, so) ==
    /\ gmode = "blaxel"
    /\ gpc[c] = "idle"
    /\ gcount < MaxCalls
    /\ blaxel_client # 0
    /\ gcount' = gcount + 1
    /\ greq' = [greq EXCEPT ![c] = req]
    /\ gcalls' = [gcalls EXCEPT ![c] = BlaxelTryAttempts(req, po, so)]
    /\ gres' = [gres EXCEPT ![c] = ChatBlaxelTry(req, po, so)]
    /\ gpc' = [gpc EXCEPT ![c] = "done"]
    /\ UNCHANGED <<gmode, ganth, blaxel_client, clients_created>>

\* chat() in proxied mode with no client yet: _ensure_blaxel_client passes the
\* None check and suspends in `await bl_model.get_parameters()`.
GwChatCold(c, req) ==
    /\ gmode = "blaxel"
    /\ gpc[c] = "idle"
    /\ gcount < MaxCalls
    /\ blaxel_client = 0
    /\ gcount' = gcount + 1
    /\ greq' = [greq EXCEPT ![c] = req]
    /\ gcalls' = [gcalls EXCEPT ![c] = <<>>]
    /\ gres' = [gres EXCEPT ![c] = NoResult]
    /\ gpc' = [gpc EXCEPT ![c] = "params"]
    /\ UNCHANGED <<gmode, ganth, blaxel_client, clients_created>>

\* get_parameters() comes back: on success the client is built and stored
\* unconditionally, then the call goes on; on failure the except branch runs.
GwResume(c, eo, po, so) ==
    /\ gpc[c] = "params"
    /\ IF eo = "err"
       THEN /\ gcalls' = [gcalls EXCEPT ![c] = FallbackAttempts(greq[c], so)]
            /\ UNCHANGED <<blaxel_client, clients_created>>
       ELSE /\ clients_created' = clients_created + 1
            /\ blaxel_client' = clients_created + 1
            /\ gcalls' = [gcalls EXCEPT ![c] = BlaxelTryAttempts(greq[c], po, so)]
    /\ gres' = [gres EXCEPT ![c] = ChatBlaxel(greq[c], eo, po, so)]
    /\ gpc' = [gpc EXCEPT ![c] = "done"]
    /\ UNCHANGED <<gmode, ganth, greq, gcount>>

\* The caller takes the result.
GwReturn(c) ==
    /\ gpc[c] = "done"
    /\ gpc' = [gpc EXCEPT ![c] = "idle"]
    /\ greq' = [greq EXCEPT ![c] = NoRequest]
    /\ gcalls' = [gcalls EXCEPT ![c] = <<>>]
    /\ gres' = [gres EXCEPT ![c] = NoResult]
    /\ UNCHANGED <<gmode, ganth, blaxel_client, clients_created, gcount>>

\* ==================================================================
\* Evaluator and quality gate
\* ==================================================================
\* EVAL_THRESHOLDS, in its iteration order.
Rubrics == <<"relevance", "evidence_coverage", "hallucination_risk",
             "actionability", "freshness">>

RubricSet == Range(Rubrics)

EVAL_THRESHOLDS ==
    [relevance |-> 600, evidence_coverage |-> 500, hallucination_risk |-> 400,
     actionability |-> 500, freshness |-> 400]

\* A faulty variant: the five rubrics weigh the same.
Weight_Uniform ==
    [relevance |-> 200, evidence_coverage |-> 200, hallucination_risk |-> 200,
     actionability |-> 200, freshness |-> 200]

\* The weights of the overall score.
Weight ==
    [relevance |-> 250, evidence_coverage |-> 250, hallucination_risk |-> 200,
     actionability |-> 200, freshness |-> 100]

\* A value found under a rubric key of the scorer's JSON: a number, something
\* float() rejects (a word, null, a list), or no such key.
Num(n) == [k |-> "num", v |-> n]

NotANumber == [k |-> "str", v |-> 0]

Missing == [k |-> "missing", v |-> 0]

\* A JSON integer beyond the range of a float (more than 308 digits):
\* float() raises OverflowError for it.
Huge == [k |-> "huge", v |-> 0]

RawValsFor(m) ==
    { Num(-100), Num(EVAL_THRESHOLDS[m]), Num(1500), NotANumber, Missing }
        \cup (IF m = "relevance" THEN {Huge} ELSE {})

\* Two concrete score objects: 0.8, 0.6, 0.9, 0.7, 1.0 and one with a low
\* hallucination_risk and a low freshness.
ExampleScores ==
    [relevance |-> Num(800), evidence_coverage |-> Num(600),
     hallucination_risk |-> Num(900), actionability |-> Num(700),
     freshness |-> Num(1000)]

LowSafetyScores ==
    [relevance |-> Num(900), evidence_coverage |-> Num(900),
     hallucination_risk |-> Num(350), actionability |-> Num(900),
     freshness |-> Num(123)]

ScoreVectors ==
    [relevance : RawValsFor("relevance"),
     evidence_coverage : RawValsFor("evidence_coverage"),
     hallucination_risk : RawValsFor("hallucination_risk"),
     actionability : RawValsFor("actionability"),
     freshness : RawValsFor("freshness")]
        \cup {ExampleScores, LowSafetyScores}

\* The flag_reason of a response: inside the scores object and beside it;
\* each is null ("none"), "" ("empty") or a text.
ReasonInputs ==
    { [inner |-> "none", outer |-> "none"], [inner |-> "empty", outer |-> "none"],
      [inner |-> "text", outer |-> "none"], [inner |-> "none", outer |-> "text"] }

\* scores.get(key, 0.5)
GetScore(sv, m) == IF sv[m].k = "missing" THEN Num(500) ELSE sv[m]

\* float(val) raises an exception _clamp does not catch (it catches
\* TypeError and ValueError only).
ClampRaises(val) == val.k = "huge"

\* The construction of the result dict raises: one of its _clamp calls does.
ProcessRaises(sv) == \E m \in RubricSet : ClampRaises(GetScore(sv, m))

\* _clamp: float(val) clamped to [0.0, 1.0]; 0.5 when float() raises
\* TypeError or ValueError.
Clamp(val) == IF val.k = "num" THEN Max(0, Min(1000, val.v)) ELSE 500

\* round(x, 3) of a value given in millionths, to thousandths. On an exact
\* tie the binary value of the float sum decides in the code; ties are taken
\* to even here and none of the score objects above produces one.
Round3(micro) ==
    LET q == micro \div 1000
        r == micro % 1000
    IN  IF r > 500 \/ (r = 500 /\ q % 2 = 1) THEN q + 1 ELSE q

OverallScore(cl) ==
    Round3(cl["relevance"] * Weight["relevance"]
           + cl["evidence_coverage"] * Weight["evidence_coverage"]
           + cl["hallucination_risk"] * Weight["hallucination_risk"]
           + cl["actionability"] * Weight["actionability"]
           + cl["freshness"] * Weight["freshness"])

\* `result.get(metric, 1.0) < threshold`
BelowThreshold(cl, m) == cl[m] < EVAL_THRESHOLDS[m]

\* f"{value:.2f}": a value in thousandths shown in hundredths, rounded to
\* the nearest (no modelled value ends in 5).
Format2(v) == (v + 5) \div 10

\* One entry of the `reasons` list:
\* f"{metric} ({value:.2f}) below threshold ({threshold})".
ReasonEntry(cl, m) ==
    [metric |-> m, value |-> Format2(cl[m]), threshold |-> EVAL_THRESHOLDS[m]]

\* A faulty variant: the loop stops at the first rubric that misses.
ReasonsList_FirstOnly(cl) ==
    LET missing == SelectSeq(Rubrics, LAMBDA m : BelowThreshold(cl, m))
    IN  IF missing = <<>> THEN <<>> ELSE <<ReasonEntry(cl, Head(missing))>>

\* The `reasons` list: one entry per rubric that misses, in threshold order.
ReasonsList(cl) ==
    LET F[i \in 0..Len(Rubrics)] ==
            IF i = 0 THEN <<>>
            ELSE IF BelowThreshold(cl, Rubrics[i])
                 THEN Append(F[i - 1], ReasonEntry(cl, Rubrics[i]))
                 ELSE F[i - 1]
    IN  F[Len(Rubrics)]

NoReason == [k |-> "none", items |-> <<>>]

ReasonOf(r) == [k |-> r, items |-> <<>>]

\* The common tail of _process_scores and _process_whitecircle_response:
\* clamp, weigh, gate, synthesize a reason when none was supplied.
Gate(sv, supplied) ==
    LET cl == [m \in RubricSet |-> Clamp(GetScore(sv, m))]
        flagged == \E m \in RubricSet : BelowThreshold(cl, m)
    IN  [scores |-> cl,
         overall_score |-> OverallScore(cl),
         flagged |-> flagged,
         flag_reason |-> IF flagged /\ supplied \in {"none", "empty"}
                         THEN [k |-> "synth", items |-> ReasonsList(cl)]
                         ELSE ReasonOf(supplied)]

\* EvaluatorAgent._process_scores: flag_reason = scores.get("flag_reason")
ProcessScores(sv, rsn) == Gate(sv, rsn.inner)

\* WhiteCircleClient._process_whitecircle_response:
\* flag_reason = scores.get("flag_reason") or data.get("flag_reason")
ProcessWhitecircleResponse(sv, rsn) ==
    Gate(sv, IF rsn.inner \in {"none", "empty"} THEN rsn.outer ELSE rsn.inner)

\* EvaluatorAgent._fallback_evaluation
FallbackEvaluation ==
    [scores |-> [m \in RubricSet |-> 500],
     overall_score |-> 500,
     flagged |-> TRUE,
     flag_reason |-> [k |-> "failed_manual_review", items |-> <<>>]]

EvalReturned(r) == [kind |-> "result", r |-> r]

JudgeRequest == [prompt |-> "judge", max_tokens |-> 1024, system |-> "none"]

\* What the judge's text holds: a JSON object of scores, no braces at all, or
\* braces around something json.loads rejects.
JudgeContents == {"scores", "nojson", "badjson"}

\* A faulty variant of _evaluate_with_llm without the try/except around the
\* gateway call.
EvaluateWithLLM_NoCatch(chat, content, sv, rsn) ==
    IF chat.kind = "exc" THEN chat
    ELSE IF content = "scores"
         THEN (IF ProcessRaises(sv) THEN Raised("float")
               ELSE EvalReturned(ProcessScores(sv, rsn)))
    ELSE EvalReturned(FallbackEvaluation)

\* EvaluatorAgent._evaluate_with_llm: chat is what gateway.chat did. The
\* try block covers the call, the parse and _process_scores.
EvaluateWithLLM(chat, content, sv, rsn) ==
    IF chat.kind = "exc" THEN EvalReturned(FallbackEvaluation)
    ELSE IF content = "scores" /\ ~ProcessRaises(sv)
         THEN EvalReturned(ProcessScores(sv, rsn))
    ELSE EvalReturned(FallbackEvaluation)

\* The external scorer: not configured, answers, or fails (transport, status,
\* unreadable body).
ExternalOutcomes == {"off", "ok", "fail"}

\* How the external scorer's call ended for the evaluator: "overflow" when
\* it answered and the processing of its scores raised.
WhitecircleOutcome(ext, sv) ==
    IF ext = "ok" /\ ProcessRaises(sv) THEN "overflow" ELSE ext

\* EvaluatorAgent.evaluate_artifact: any exception of the external scorer,
\* the processing of its response included, leads to the judge.
EvaluateArtifact(ext, chat, content, sv, rsn) ==
    IF WhitecircleOutcome(ext, sv) = "ok"
    THEN EvalReturned(ProcessWhitecircleResponse(sv, rsn))
    ELSE EvaluateWithLLM(chat, content, sv, rsn)

\* How the judge's call ended: it raised, answered with scores, answered
\* with scores whose processing raised, or answered with something that
\* holds no readable JSON object.
JudgeOutcome(chat, content, sv) ==
    IF chat.kind = "exc" THEN "exception"
    ELSE IF content # "scores" THEN "unparsable"
    ELSE IF ProcessRaises(sv) THEN "overflow" ELSE "success"

\* A faulty variant: the judge is asked even when the external scorer's
\* result is returned.
EvaluateCalls_JudgeAlways(ext, chat, content, sv) ==
    (IF ext = "off" THEN <<>>
     ELSE <<[to |-> "whitecircle", outcome |-> WhitecircleOutcome(ext, sv)]>>)
        \o <<[to |-> "judge", outcome |-> JudgeOutcome(chat, content, sv)]>>

\* The scorer calls evaluate_artifact makes, with how each ended.
EvaluateCalls(ext, chat, content, sv) ==
    (IF ext = "off" THEN <<>>
     ELSE <<[to |-> "whitecircle", outcome |-> WhitecircleOutcome(ext, sv)]>>)
        \o (IF WhitecircleOutcome(ext, sv) = "ok" THEN <<>>
            ELSE <<[to |-> "judge", outcome |-> JudgeOutcome(chat, content, sv)]>>)

EvInit ==
    /\ ev_scores \in ScoreVectors
    /\ ev_reason \in ReasonInputs
    /\ ev_pc = "ready"
    /\ ev_calls = <<>>
    /\ ev_result = NoResult
    /\ whitecircle_enabled \in BOOLEAN

EvIdle ==
    /\ ev_scores = [m \in RubricSet |-> Missing]
    /\ ev_reason = [inner |-> "none", outer |-> "none"]
    /\ ev_pc = "ready"
    /\ ev_calls = <<>>
    /\ ev_result = NoResult
    /\ whitecircle_enabled = FALSE

\* One evaluate_artifact call: the external scorer is off exactly when it is
\* not configured.
Evaluate(ext, chat, content) ==
    /\ ev_pc = "ready"
    /\ (ext = "off") <=> ~whitecircle_enabled
    /\ ev_pc' = "done"
    /\ ev_calls' = EvaluateCalls(ext, chat, content, ev_scores)
    /\ ev_result' = EvaluateArtifact(ext, chat, content, ev_scores, ev_reason)
    /\ UNCHANGED <<ev_scores, ev_reason, whitecircle_enabled>>

\* ==================================================================
\* Persistence
\* ==================================================================
\* Tables are sequences; a row's id is its position. Competitor 1 exists,
\* competitor 2 does not.
\* `gone` holds, per table, the ids of the rows a delete removed.
NoneGone ==
    [competitors |-> {}, sources |-> {}, insights |-> {}, themes |-> {}, links |-> {},
     actions |-> {}, artifacts |-> {}, evals |-> {}]

EmptyDb ==
    [competitors |-> {1}, sources |-> <<>>, insights |-> <<>>, themes |-> <<>>,
     links |-> <<>>, actions |-> <<>>, artifacts |-> <<>>, evals |-> <<>>,
     gone |-> NoneGone]

CompetitorIds == {1, 2}

\* ==================================================================
\* Collector
\* ==================================================================
CHUNK_SIZE == 800

CHUNK_OVERLAP == 100

RAW_CONTENT_CAP == 10000

MIN_RAW_CHARS == 20

MAX_EXTRACT_CHUNKS == 10

\* A text: its length in characters and in words, and whether it holds an
\* e-mail address, phone number or SSN-like sequence.
ShortPage == [chars |-> 300, words |-> 40, pii |-> TRUE]

LongPage == [chars |-> 50000, words |-> 8450, pii |-> FALSE]

FetchedTexts == {ShortPage, LongPage}

TinyRaw == [chars |-> 5, words |-> 1, pii |-> FALSE]

PastedRaw == [chars |-> 25, words |-> 4, pii |-> TRUE]

RawTexts == {TinyRaw, PastedRaw}

Urls == {"u1", "u2"}

\* redact_pii: the three substitutions remove what they match.
RedactPii(t) == [t EXCEPT !.pii = FALSE]

\* text[:10000]
Truncate(t) == [t EXCEPT !.chars = Min(t.chars, RAW_CONTENT_CAP)]

\* The while loop of chunk_text over n words, from `start`: each chunk is the
\* word range [start, end).
RECURSIVE ChunkLoop(_, _)
ChunkLoop(n, start) ==
    IF start >= n THEN <<>>
    ELSE <<[from |-> start, to |-> Min(start + CHUNK_SIZE, n)]>>
             \o ChunkLoop(n, start + CHUNK_SIZE - CHUNK_OVERLAP)

\* chunk_text: a text of at most CHUNK_SIZE words is returned whole.
ChunkText(t) ==
    IF t.words <= CHUNK_SIZE THEN <<[from |-> 0, to |-> t.words]>>
    ELSE ChunkLoop(t.words, 0)

\* parse_raw_text raises for fewer than 20 characters after strip().
ParseRawOk(t) == t.chars >= MIN_RAW_CHARS

\* ==================================================================
\* Clusterer
\* ==================================================================
\* An insight draft: `stem` is the first 80 characters of its text lower-cased
\* and trimmed, `variant` tells apart texts with the same stem.
Draft(stem, variant, quote) == [stem |-> stem, variant |-> variant, quote |-> quote]

\* What the extraction response holds: a JSON array of drafts, no brackets,
\* or brackets around something json.loads rejects.
InsightLists ==
    { <<>>,
      <<Draft("a", 1, TRUE)>>,
      <<Draft("a", 1, TRUE), Draft("b", 1, FALSE)>>,
      <<Draft("a", 1, TRUE), Draft("a", 2, FALSE), Draft("b", 1, TRUE)>>,
      <<Draft("a", 3, TRUE), Draft("a", 1, FALSE)>> }

ArrayContents == {"array", "nobrackets", "badjson"}

KEY_PREFIX == 80

\* n copies of one character.
Rep(n, ch) == [i \in 1..n |-> ch]

\* The text of a draft, a sequence of characters. Variant 1 is 85 times the
\* stem letter; variant 2 is 80 times the stem letter in upper case, then
\* "zzzzz"; variant 3 is variant 1 behind two blanks.
TextOf(d) ==
    CASE d.variant = 1 -> Rep(85, d.stem)
      [] d.variant = 2 -> Rep(80, IF d.stem = "a" THEN "A" ELSE "B") \o Rep(5, "z")
      [] OTHER -> Rep(2, " ") \o Rep(85, d.stem)

\* s[:n]
Take(s, n) == SubSeq(s, 1, Min(n, Len(s)))

\* str.lower()
Lower(s) ==
    [i \in 1..Len(s) |-> CASE s[i] = "A" -> "a" [] s[i] = "B" -> "b" [] OTHER -> s[i]]

\* str.strip()
RECURSIVE StripText(_)
StripText(s) ==
    IF s = <<>> THEN s
    ELSE IF Head(s) = " " THEN StripText(Tail(s))
    ELSE IF s[Len(s)] = " " THEN StripText(SubSeq(s, 1, Len(s) - 1))
    ELSE s

\* ins.get("text", "")[:80].lower().strip()
DedupKey(d) == StripText(Lower(Take(TextOf(d), KEY_PREFIX)))

\* A faulty variant of the loop: of two drafts with the same key the later
\* one is kept.
RECURSIVE Dedup_KeepLast(_, _)
Dedup_KeepLast(list, seen) ==
    IF list = <<>> THEN <<>>
    ELSE IF \E i \in 2..Len(list) : DedupKey(list[i]) = DedupKey(Head(list))
         THEN Dedup_KeepLast(Tail(list), seen)
    ELSE <<Head(list)>> \o Dedup_KeepLast(Tail(list), seen)

\* The de-duplication loop of extract_insights.
RECURSIVE Dedup(_, _)
Dedup(list, seen) ==
    IF list = <<>> THEN <<>>
    ELSE IF DedupKey(Head(list)) \in seen THEN Dedup(Tail(list), seen)
    ELSE <<Head(list)>> \o Dedup(Tail(list), seen \cup {DedupKey(Head(list))})

\* _extract_from_chunk after the gateway answered.
ParseArray(content, list) == IF content = "array" THEN list ELSE <<>>

\* An element of a parsed array that is not a JSON object (a number, a
\* string, null): json.loads accepts "[1]" as readily as "[{...}]".
NotAnObject == Draft("none", 0, FALSE)

IsObject(d) == d # NotAnObject

\* What the extraction backend can answer: the three array contents, or a
\* well-formed array whose elements are not objects.
ExtractContents == ArrayContents \cup {"scalars"}

\* What one chunk adds to all_insights: nothing when its call raised (the
\* per-chunk except), else whatever array was parsed.
Collected(chat, content, list) ==
    IF chat.kind = "exc" THEN <<>>
    ELSE IF content = "scalars" THEN <<NotAnObject>>
    ELSE ParseArray(content, list)

\* What the backend does for one chunk.
ChunkOutcome(chat, content, list) == [chat |-> chat, content |-> content, list |-> list]

\* all_insights after the chunk loop.
RECURSIVE CollectedAll(_)
CollectedAll(outs) ==
    IF outs = <<>> THEN <<>>
    ELSE Collected(Head(outs).chat, Head(outs).content, Head(outs).list)
            \o CollectedAll(Tail(outs))

\* extract_insights over the chunks' outcomes. The loop that removes
\* duplicates stands outside every try block and calls ins.get on each
\* element: an element that is not an object makes it raise.
ExtractInsights(outs) ==
    IF \E i \in 1..Len(CollectedAll(outs)) : ~IsObject(CollectedAll(outs)[i])
    THEN [kind |-> "exc", list |-> <<>>]
    ELSE [kind |-> "list", list |-> Dedup(CollectedAll(outs), {})]

\* A theme draft: the frequency the backend states and the member indices.
ThemeDraft(f, idx) == [frequency |-> f, insight_indices |-> idx]

ThemeLists ==
    { <<>>,
      <<ThemeDraft(1, <<1>>)>>,
      <<ThemeDraft(2, <<0, 1>>)>>,
      <<ThemeDraft(1, <<0>>), ThemeDraft(3, <<1, 7, -1>>)>> }

\* cluster_into_themes: no call for an empty list; the gateway call stands
\* outside the try block, so its exception leaves the function.
ClusterIntoThemes(insights, chat, content, list) ==
    IF insights = <<>> THEN [kind |-> "list", list |-> <<>>]
    ELSE IF chat.kind = "exc" THEN chat
    ELSE [kind |-> "list", list |-> ParseArray(content, list)]

ExtractRequest == [prompt |-> "extract", max_tokens |-> MAX_TOKENS, system |-> "none"]

ClusterRequest == [prompt |-> "cluster", max_tokens |-> MAX_TOKENS, system |-> "none"]

\* ==================================================================
\* Orchestrator: ingestion
\* ==================================================================
NoText == [chars |-> 0, words |-> 0, pii |-> FALSE]

UrlItem(u) == [type |-> "url", url |-> u, raw |-> NoText]

RawItem(t) == [type |-> "raw", url |-> "none", raw |-> t]

MaxUrls == 2

MaxRaws == 1

SeqsUpTo(S, n) == UNION {[1..k -> S] : k \in 0..n}

UrlLists == SeqsUpTo(Urls, MaxUrls)

RawLists == SeqsUpTo(RawTexts, MaxRaws)

\* What fetch_url does for one URL: raises, or returns a text.
FetchOutcomes ==
    {[ok |-> FALSE, text |-> NoText]} \cup {[ok |-> TRUE, text |-> t] : t \in FetchedTexts}

NoSummary ==
    [status |-> "none", sources_created |-> 0, insights_extracted |-> 0,
     themes_generated |-> 0, message |-> [text |-> "none", errors |-> <<>>]]

Summary(st, sc, ie, tg, text, errs) ==
    [status |-> st, sources_created |-> sc, insights_extracted |-> ie,
     themes_generated |-> tg, message |-> [text |-> text, errors |-> errs]]

\* The early return for an unknown competitor; the route fills the counts with 0.
NotFoundSummary == Summary("error", 0, 0, 0, "not found", <<>>)

\* The state a finished or not yet started run leaves in the run's variables.
IngIdle ==
    /\ ing_pc = "idle"
    /\ ing_kind = "none"
    /\ ing_comp = 0
    /\ search_results = <<>>
    /\ ing_items = <<>>
    /\ ing_idx = 0
    /\ ing_rows = <<>>
    /\ ing_outcomes = <<>>
    /\ all_chunks = <<>>
    /\ sources_created = 0
    /\ errors = <<>>
    /\ raw_insights = <<>>
    /\ raw_themes = <<>>
    /\ insight_objects = <<>>
    /\ ing_llm = <<>>
    /\ themes_created = 0
    /\ summary = NoSummary

\* A database an earlier run left behind: one source, two insights, one theme.
SeededDb ==
    [EmptyDb EXCEPT
       !.sources = <<[competitor_id |-> 1, url |-> "u0", source_type |-> "web",
                      status |-> "done", raw_content |-> Truncate(RedactPii(ShortPage)),
                      error_message |-> "none"]>>,
       !.insights = <<[source_id |-> 1, competitor_id |-> 1, draft |-> Draft("a", 1, TRUE)],
                      [source_id |-> 1, competitor_id |-> 1, draft |-> Draft("b", 1, FALSE)]>>,
       !.themes = <<[competitor_id |-> 1, frequency |-> 2]>>,
       !.links = <<[theme_id |-> 1, insight_id |-> 1], [theme_id |-> 1, insight_id |-> 2]>>]

\* ingest_sources up to the loops: the competitor is looked up first.
IngestSources(comp, urls, raws) ==
    /\ ing_pc = "idle"
    /\ ing_kind' = "ingest"
    /\ ing_comp' = comp
    /\ IF comp \notin db.competitors
       THEN /\ summary' = NotFoundSummary
            /\ ing_pc' = "done"
            /\ ing_items' = <<>>
            /\ ing_idx' = 0
       ELSE /\ summary' = NoSummary
            /\ ing_items' = [i \in 1..Len(urls) |-> UrlItem(urls[i])]
                               \o [i \in 1..Len(raws) |-> RawItem(raws[i])]
            /\ ing_idx' = 1
            /\ ing_pc' = IF Len(urls) + Len(raws) = 0 THEN "commit" ELSE "collect"
    /\ UNCHANGED <<search_results, ing_rows, ing_outcomes, all_chunks, sources_created,
                   errors, raw_themes, raw_insights, insight_objects, ing_llm, themes_created>>
    /\ UNCHANGED dbVars

\* Source(..., status="processing"); db.add; await db.flush()
CreateSourceRow ==
    /\ ing_pc = "collect"
    /\ LET it == ing_items[ing_idx]
           row == [competitor_id |-> ing_comp, url |-> it.url,
                   source_type |-> CASE it.type = "url" -> "web"
                                     [] it.type = "raw" -> "manual"
                                     [] it.type = "pdf" -> "pdf"
                                     [] OTHER -> "research",
                   status |-> "processing", raw_content |-> NoText,
                   error_message |-> "none"]
       IN  /\ db' = [db EXCEPT !.sources = Append(@, row)]
           /\ ing_rows' = Append(ing_rows, Len(db.sources) + 1)
    /\ ing_pc' = "fetch"
    /\ UNCHANGED <<disk, ing_kind, ing_comp, search_results, ing_items, ing_idx, ing_outcomes,
                   all_chunks, sources_created, errors, raw_themes, raw_insights,
                   insight_objects, ing_llm, themes_created, summary>>

\* A faulty variant of the loop: the first failure ends the collection.
AfterItem_AbortOnFailure(ok, idx, n) ==
    IF ~ok \/ idx >= n THEN "commit" ELSE "collect"

\* Both for loops go on to the next item whatever the item did.
AfterItem(ok, idx, n) == IF idx >= n THEN "commit" ELSE "collect"

\* The chunk triples of one source.
ChunkTriples(t, label, id) ==
    [i \in 1..Len(ChunkText(t)) |->
        [chunk |-> ChunkText(t)[i], url |-> label, source_id |-> id, pii |-> t.pii]]

\* The error entry of one failed item: f"URL {url}: ..." or "Raw text: ...".
ErrorEntry(it) ==
    IF it.type = "url" THEN [kind |-> "URL", url |-> it.url]
    ELSE [kind |-> "Raw text", url |-> "none"]

\* A faulty variant of the except branch: the message is stored and the
\* status left as it is.
MarkFailed_MessageOnly(d, id) == [d EXCEPT !.sources[id].error_message = "error"]

\* The except branch of an item: source.status = "failed" and
\* source.error_message = str(e)[:500].
MarkFailed(d, id) ==
    [d EXCEPT !.sources[id].status = "failed", !.sources[id].error_message = "error"]

\* The try/except of one loop iteration, after the fetch or the parse.
ProcessItem(ok, text) ==
    LET it == ing_items[ing_idx]
        id == ing_rows[ing_idx]
        t  == RedactPii(text)
    IN  /\ IF ok
           THEN /\ db' = [db EXCEPT !.sources[id].raw_content = Truncate(t),
                                    !.sources[id].source_type =
                                        IF it.type = "url" THEN "detected"
                                        ELSE db.sources[id].source_type,
                                    !.sources[id].status = "done"]
                /\ all_chunks' = all_chunks
                      \o ChunkTriples(t, IF it.type = "raw" THEN "manual" ELSE it.url, id)
                /\ sources_created' = sources_created + 1
                /\ UNCHANGED errors
           ELSE /\ db' = MarkFailed(db, id)
                /\ errors' = Append(errors, ErrorEntry(it))
                /\ UNCHANGED <<all_chunks, sources_created>>
        /\ ing_outcomes' = Append(ing_outcomes, IF ok THEN "ok" ELSE "fail")
        /\ ing_idx' = ing_idx + 1
        /\ ing_pc' = AfterItem(ok, ing_idx, Len(ing_items))
        /\ UNCHANGED <<disk, ing_kind, ing_comp, search_results, ing_items, ing_rows, raw_themes, raw_insights,
                       insight_objects, ing_llm, themes_created, summary>>

\* One iteration of `for url in urls` after the row exists.
FetchUrl(o) ==
    /\ ing_pc = "fetch"
    /\ ing_kind = "ingest"
    /\ ing_items[ing_idx].type = "url"
    /\ ProcessItem(o.ok, o.text)

\* One iteration of `for raw in raw_texts` after the row exists.
ParseRaw ==
    /\ ing_pc = "fetch"
    /\ ing_kind = "ingest"
    /\ ing_items[ing_idx].type = "raw"
    /\ ProcessItem(ParseRawOk(ing_items[ing_idx].raw), ing_items[ing_idx].raw)

\* The status of the early return when no chunk was collected.
NoContentStatus(errs) == IF errs # <<>> THEN "error" ELSE "warning"

\* The status of the final return of ingest_sources.
PipelineStatus(n_insights) == "success"

\* A faulty variant: the final message drops the per-item errors.
PipelineMessage_NoErrors(errs) == <<>>

\* The per-item errors the final message carries.
PipelineMessage(errs) == errs

\* A faulty variant of the commit: the rows stay in the session only.
CommitSession_FlushOnly(session, durable) == durable

\* await db.commit(): what the session holds becomes the committed tables.
CommitSession(session, durable) == session

\* await db.commit() after the loops, and the early return.
CommitSources ==
    /\ ing_pc = "commit"
    /\ ing_kind = "ingest"
    /\ disk' = CommitSession(db, disk)
    /\ IF all_chunks = <<>>
       THEN /\ summary' = Summary(NoContentStatus(errors), sources_created, 0, 0,
                                  IF errors # <<>> THEN "errors" ELSE "No content to process",
                                  errors)
            /\ ing_pc' = "done"
       ELSE /\ summary' = NoSummary
            /\ ing_pc' = "extract"
    /\ UNCHANGED <<db, ing_kind, ing_comp, search_results, ing_items, ing_idx, ing_rows, ing_outcomes,
                   all_chunks, sources_created, errors, raw_themes, raw_insights, insight_objects,
                   ing_llm, themes_created>>

\* A faulty variant: every chunk goes into the prompt.
FirstChunks_All(chunks) == chunks

\* chunk_texts[:10]
FirstChunks(chunks) == SubSeq(chunks, 1, Min(Len(chunks), MAX_EXTRACT_CHUNKS))

\* A faulty variant: the insights go to the source of the last chunk.
PrimarySourceId_Last(chunks) == chunks[Len(chunks)].source_id

\* source_ids[0]: the source of the first chunk collected.
PrimarySourceId(chunks) == chunks[1].source_id

\* extract_insights, then one Insight row per draft and await db.flush().
ExtractStep(chat, content, list) ==
    /\ ing_pc = "extract"
    /\ LET res == ExtractInsights(<<ChunkOutcome(chat, content, list)>>)
           got == res.list
           base == Len(db.insights)
       IN  IF res.kind = "exc"
           THEN /\ ing_pc' = "raised"
                /\ db' = disk
                /\ UNCHANGED <<raw_insights, insight_objects>>
           ELSE /\ ing_pc' = "cluster"
                /\ raw_insights' = got
                /\ insight_objects' = [i \in 1..Len(got) |-> base + i]
                /\ db' = [db EXCEPT !.insights = @ \o
                             [i \in 1..Len(got) |->
                                 [source_id |-> PrimarySourceId(all_chunks),
                                  competitor_id |-> ing_comp, draft |-> got[i]]]]
    /\ ing_llm' = Append(ing_llm, [call |-> "extract", chunks |-> FirstChunks(all_chunks),
                                   collected |-> Collected(chat, content, list),
                                   insights |-> <<>>])
    /\ UNCHANGED <<disk, raw_themes, ing_kind, ing_comp, search_results, ing_items, ing_idx, ing_rows, ing_outcomes,
                   all_chunks, sources_created, errors, themes_created, summary>>

\* `if 0 <= idx < len(insight_objects)`
ValidIndex(i, n) == 0 <= i /\ i < n

\* A faulty variant of the index loop: one invalid index and the theme gets
\* no join row at all.
LinksOf_AbortOnInvalid(theme_id, indices, objs) ==
    IF \E k \in 1..Len(indices) : ~ValidIndex(indices[k], Len(objs)) THEN <<>>
    ELSE [k \in 1..Len(indices) |->
            [theme_id |-> theme_id, insight_id |-> objs[indices[k] + 1]]]

\* The join rows of one theme.
LinksOf(theme_id, indices, objs) ==
    LET valid == SelectSeq(indices, LAMBDA i : ValidIndex(i, Len(objs)))
    IN  [k \in 1..Len(valid) |-> [theme_id |-> theme_id, insight_id |-> objs[valid[k] + 1]]]

\* The join rows of all themes of the run; the first theme gets id base + 1.
RECURSIVE AllLinks(_, _, _)
AllLinks(list, base, objs) ==
    IF list = <<>> THEN <<>>
    ELSE LinksOf(base + 1, Head(list).insight_indices, objs)
            \o AllLinks(Tail(list), base + 1, objs)

\* cluster_into_themes, the persist loop, await db.commit() and the final
\* return; an exception of the gateway call leaves ingest_sources, and the
\* session is closed without a commit.
ClusterStep(chat, content, list) ==
    /\ ing_pc = "cluster"
    /\ LET res == ClusterIntoThemes(raw_insights, chat, content, list)
       IN  /\ ing_llm' = IF raw_insights = <<>> THEN ing_llm
                         ELSE Append(ing_llm, [call |-> "cluster", chunks |-> <<>>,
                                                          collected |-> <<>>,
                                                          insights |-> raw_insights])
           /\ IF res.kind = "exc"
              THEN /\ ing_pc' = "raised"
                   /\ db' = disk
                   /\ UNCHANGED <<disk, raw_themes, themes_created, summary>>
              ELSE /\ db' = [db EXCEPT
                               !.themes = @ \o [i \in 1..Len(res.list) |->
                                   [competitor_id |-> ing_comp,
                                    frequency |-> res.list[i].frequency]],
                               !.links = @ \o AllLinks(res.list, Len(db.themes),
                                                       insight_objects)]
                   /\ disk' = CommitSession(db', disk)
                   /\ raw_themes' = res.list
                   /\ themes_created' = Len(res.list)
                   /\ summary' = Summary(PipelineStatus(Len(insight_objects)),
                                         sources_created, Len(insight_objects),
                                         Len(res.list),
                                         CASE ing_kind = "ingest" -> "Pipeline complete."
                                           [] ing_kind = "pdf" -> "PDF processed"
                                           [] OTHER -> "Researched",
                                         PipelineMessage(errors))
                   /\ ing_pc' = "done"
    /\ UNCHANGED <<ing_kind, ing_comp, search_results, ing_items, ing_idx, ing_rows, ing_outcomes,
                   all_chunks, sources_created, errors, raw_insights, insight_objects>>

\* ---- the PDF variant ----
PdfItem == [type |-> "pdf", url |-> "none", raw |-> NoText]

\* ingest_pdf up to the Source row.
IngestPdf(comp) ==
    /\ ing_pc = "idle"
    /\ ing_kind' = "pdf"
    /\ ing_comp' = comp
    /\ IF comp \notin db.competitors
       THEN /\ summary' = NotFoundSummary
            /\ ing_pc' = "done"
            /\ ing_items' = <<>>
            /\ ing_idx' = 0
       ELSE /\ summary' = NoSummary
            /\ ing_items' = <<PdfItem>>
            /\ ing_idx' = 1
            /\ ing_pc' = "collect"
    /\ UNCHANGED <<search_results, ing_rows, ing_outcomes, all_chunks, sources_created,
                   errors, raw_themes, raw_insights, insight_objects, ing_llm, themes_created>>
    /\ UNCHANGED dbVars

\* extract_pdf and what follows it up to chunk_text: on failure the row is
\* marked, committed and the error summary returned; on success the row is
\* committed and the text chunked.
ExtractPdf(o) ==
    /\ ing_pc = "fetch"
    /\ ing_kind = "pdf"
    /\ LET id == ing_rows[ing_idx]
           t  == RedactPii(o.text)
       IN  IF o.ok
           THEN /\ db' = [db EXCEPT !.sources[id].raw_content = Truncate(t),
                                    !.sources[id].status = "done"]
                /\ all_chunks' = ChunkTriples(t, "pdf", id)
                /\ sources_created' = 1
                /\ summary' = NoSummary
                /\ ing_pc' = "extract"
           ELSE /\ db' = MarkFailed(db, id)
                /\ summary' = Summary("error", 0, 0, 0, "PDF extraction failed", <<>>)
                /\ ing_pc' = "done"
                /\ UNCHANGED <<all_chunks, sources_created>>
    /\ disk' = CommitSession(db', disk)
    /\ ing_outcomes' = Append(ing_outcomes, IF o.ok THEN "ok" ELSE "fail")
    /\ ing_idx' = ing_idx + 1
    /\ UNCHANGED <<ing_kind, ing_comp, search_results, ing_items, ing_rows, errors,
                   raw_themes, raw_insights, insight_objects, ing_llm, themes_created>>

\* ---- the research variant ----
MAX_FETCH == 5

SNIPPET_MIN == 30

LongSnippet == [chars |-> 40, words |-> 6, pii |-> FALSE]

LeakySnippet == [chars |-> 60, words |-> 9, pii |-> TRUE]

ShortSnippet == [chars |-> 25, words |-> 4, pii |-> FALSE]

Result(u, sn) == [url |-> u, snippet |-> sn]

\* What research_competitor returns: the six known-site entries, then up to
\* two suggested ones, all with different URLs.
KnownResults ==
    <<Result("k1", ShortSnippet), Result("k2", ShortSnippet), Result("k3", LongSnippet),
      Result("k4", LongSnippet), Result("k5", LongSnippet), Result("k6", LongSnippet)>>

SearchResultLists ==
    { KnownResults,
      KnownResults \o <<Result("a1", LeakySnippet), Result("a2", NoText)>> }

\* research_and_ingest up to fetch_research_results.
ResearchAndIngest(comp, results) ==
    /\ ing_pc = "idle"
    /\ ing_kind' = "research"
    /\ ing_comp' = comp
    /\ IF comp \notin db.competitors
       THEN /\ summary' = NotFoundSummary
            /\ ing_pc' = "done"
            /\ search_results' = <<>>
            /\ ing_idx' = 0
       ELSE /\ summary' = NoSummary
            /\ search_results' = results
            /\ ing_idx' = 1
            /\ ing_pc' = "rfetch"
    /\ UNCHANGED <<ing_items, ing_rows, ing_outcomes, all_chunks, sources_created,
                   errors, raw_themes, raw_insights, insight_objects, ing_llm, themes_created>>
    /\ UNCHANGED dbVars

\* The text of a snippet used in place of an unreachable page:
\* f"Title: ...\nURL: {url}\n\n{snippet}".
SnippetFallback(sn) == [sn EXCEPT !.chars = @ + 20, !.words = @ + 4]

\* One iteration of the loop of fetch_research_results over results[:max_fetch]:
\* a page that cannot be fetched is replaced by its snippet when that is
\* longer than 30 characters, and dropped otherwise.
ResearchFetch(o) ==
    /\ ing_pc = "rfetch"
    /\ LET r == search_results[ing_idx]
           last == ing_idx >= Min(Len(search_results), MAX_FETCH)
           got == IF o.ok
                  THEN Append(ing_items, [type |-> "fetched", url |-> r.url, raw |-> o.text])
                  ELSE IF r.snippet.chars > SNIPPET_MIN
                  THEN Append(ing_items, [type |-> "web_snippet", url |-> r.url,
                                          raw |-> SnippetFallback(r.snippet)])
                  ELSE ing_items
       IN  /\ ing_items' = got
           /\ ing_idx' = IF last THEN 1 ELSE ing_idx + 1
           /\ ing_pc' = IF ~last THEN "rfetch"
                        ELSE IF got = <<>> THEN "commit" ELSE "collect"
    /\ UNCHANGED <<ing_kind, ing_comp, search_results, ing_rows, ing_outcomes, all_chunks,
                   sources_created, errors, raw_themes, raw_insights, insight_objects, ing_llm,
                   themes_created, summary>>
    /\ UNCHANGED dbVars

\* One iteration of `for text, stype, url in fetched` after the row exists.
StoreFetched ==
    /\ ing_pc = "fetch"
    /\ ing_kind = "research"
    /\ ProcessItem(TRUE, ing_items[ing_idx].raw)

\* "\n\n".join(snippet_texts)
RECURSIVE JoinTexts(_)
JoinTexts(ts) ==
    IF ts = <<>> THEN NoText
    ELSE LET rest == JoinTexts(Tail(ts))
         IN  [chars |-> Head(ts).chars + rest.chars, words |-> Head(ts).words + rest.words,
              pii |-> Head(ts).pii \/ rest.pii]

\* The snippets of all search results that have one.
SnippetTexts(results) ==
    LET with == SelectSeq(results, LAMBDA r : r.snippet.chars > 0)
    IN  [i \in 1..Len(with) |-> with[i].snippet]

\* The snippet source, await db.commit(), and the early return.
CommitResearch ==
    /\ ing_pc = "commit"
    /\ ing_kind = "research"
    /\ LET sn == SnippetTexts(search_results)
           joined == JoinTexts(sn)
           id == Len(db.sources) + 1
           row == [competitor_id |-> ing_comp, url |-> "none",
                   source_type |-> "research_snippets", status |-> "done",
                   raw_content |-> Truncate(joined), error_message |-> "none"]
           chunks == IF sn = <<>> THEN all_chunks
                     ELSE Append(all_chunks,
                                 [chunk |-> [from |-> 0, to |-> joined.words],
                                  url |-> "search_snippets", source_id |-> id,
                                  pii |-> joined.pii])
       IN  /\ db' = IF sn = <<>> THEN db ELSE [db EXCEPT !.sources = Append(@, row)]
           /\ ing_rows' = IF sn = <<>> THEN ing_rows ELSE Append(ing_rows, id)
           /\ sources_created' = IF sn = <<>> THEN sources_created ELSE sources_created + 1
           /\ all_chunks' = chunks
           /\ IF chunks = <<>>
              THEN /\ summary' = Summary(NoContentStatus(errors), sources_created', 0, 0,
                                         IF errors # <<>> THEN "errors"
                                         ELSE "Could not fetch any research results.",
                                         errors)
                   /\ ing_pc' = "done"
              ELSE /\ summary' = NoSummary
                   /\ ing_pc' = "extract"
    /\ disk' = CommitSession(db', disk)
    /\ UNCHANGED <<ing_kind, ing_comp, search_results, ing_items, ing_idx, ing_outcomes,
                   errors, raw_themes, raw_insights, insight_objects, ing_llm, themes_created>>

\* The caller has the summary or the exception.
IngestReturn ==
    /\ ing_pc \in {"done", "raised"}
    /\ ing_pc' = "returned"
    /\ UNCHANGED <<ing_kind, ing_comp, search_results, ing_items, ing_idx, ing_rows, ing_outcomes,
                   all_chunks, sources_created, errors, raw_themes, raw_insights, insight_objects,
                   ing_llm, themes_created, summary>>
    /\ UNCHANGED dbVars

\* ==================================================================
\* Orchestrator: action and artifact
\* ==================================================================
\* No function call in progress.
FnIdle ==
    /\ fn_pc = "idle"
    /\ fn_in = <<>>
    /\ fn_out = NoResult

ActIdle ==
    /\ act_pc = "idle"
    /\ act_req = [theme_id |-> 0, competitor_id |-> 0, action_type |-> "none"]
    /\ act_id = 0
    /\ act_art = 0
    /\ act_gen = NoResult
    /\ act_eval = NoResult
    /\ gen_calls = 0
    /\ eval_calls = 0
    /\ llm_routes = {}
    /\ act_ret = "none"
    /\ act_count = 0

MaxActions == 2

\* action_type is a free string in the request schema; "other" stands for
\* any string outside the four named kinds.
ActionCreate(theme_id, comp, action_type) ==
    [theme_id |-> theme_id, competitor_id |-> comp, action_type |-> action_type]

\* The request bodies tried: every kind on the existing theme, for a known
\* and an unknown competitor, and two requests for a theme that is not there.
ActionRequests ==
    { ActionCreate(1, 1, "battlecard"), ActionCreate(1, 1, "messaging"),
      ActionCreate(1, 2, "roadmap"), ActionCreate(1, 1, "ignore"),
      ActionCreate(1, 2, "other"), ActionCreate(2, 1, "battlecard"),
      ActionCreate(2, 1, "ignore") }

\* insights_list: the insights linked to the theme, in link order.
InsightsOfTheme(d, theme_id) ==
    LET ls == SelectSeq(d.links, LAMBDA l : l.theme_id = theme_id)
    IN  [i \in 1..Len(ls) |-> d.insights[ls[i].insight_id]]

\* A faulty variant: an insight without a quote is cited too.
CitationsOf_All(insights) == [i \in 1..Len(insights) |-> insights[i].draft]

\* The citations _call_llm builds: one per insight that has a quote.
CitationsOf(insights) ==
    LET quoted == SelectSeq(insights, LAMBDA ins : ins.draft.quote)
    IN  [i \in 1..Len(quoted) |-> quoted[i].draft]

Generated(content, citations) ==
    [kind |-> "artifact", content |-> content, citations |-> citations]

\* A faulty variant of _call_llm that lets the client's exception out.
CallLlm_NoCatch(o, insights) ==
    IF o = "err" THEN Raised("anthropic")
    ELSE Generated("generated", CitationsOf(insights))

\* WriterAgent._call_llm: a failure of the call becomes the content.
CallLlm(o, insights) ==
    IF o = "err" THEN Generated("error_text", <<>>)
    ELSE Generated("generated", CitationsOf(insights))

\* The kinds generate_artifact has a prompt for.
WrittenTypes == {"battlecard", "messaging", "roadmap"}

\* WriterAgent.generate_artifact
GenerateArtifact(action_type, o, insights) ==
    IF action_type \in WrittenTypes THEN CallLlm(o, insights)
    ELSE Generated("no_artifact", <<>>)

\* The client calls one generate_artifact makes: the else branch returns
\* without reaching _call_llm.
WriterCalls(action_type) == IF action_type \in WrittenTypes THEN 1 ELSE 0

\* A faulty variant of the initial status: every action starts pending.
InitialStatus_AlwaysPending(action_type) == "pending"

\* status="pending" if action_type != "ignore" else "done"
InitialStatus(action_type) == IF action_type # "ignore" THEN "pending" ELSE "done"

\* A faulty variant of the status update: the verdict is not copied.
StatusAfterEvaluation_Unchanged(status, flagged) == status

\* if eval_result["flagged"]: action.status = "flagged"
StatusAfterEvaluation(status, flagged) == IF flagged THEN "flagged" ELSE status

\* The score objects the scorer may answer with in this flow: every rubric
\* on its threshold, one rubric low; with and without a reason of the
\* scorer's own.
ActionScoreVectors ==
    { [m \in RubricSet |-> Num(EVAL_THRESHOLDS[m])],
      [m \in RubricSet |-> IF m = "freshness" THEN Num(100) ELSE Num(900)] }

ActionReasonInputs ==
    { [inner |-> "none", outer |-> "none"], [inner |-> "text", outer |-> "none"] }

\* create_action_with_artifact up to the first flush: theme lookup, then the
\* ActionItem row.
CreateAction(theme_id, comp, action_type) ==
    /\ act_pc = "idle"
    /\ act_count < MaxActions
    /\ act_count' = act_count + 1
    /\ act_req' = ActionCreate(theme_id, comp, action_type)
    /\ act_art' = 0
    /\ act_gen' = NoResult
    /\ act_eval' = NoResult
    /\ gen_calls' = 0
    /\ eval_calls' = 0
    /\ llm_routes' = {}
    /\ IF theme_id \notin 1..Len(db.themes)
       THEN /\ act_ret' = "not_found"
            /\ act_pc' = "done"
            /\ act_id' = 0
            /\ UNCHANGED db
       ELSE /\ act_ret' = "none"
            /\ act_id' = Len(db.actions) + 1
            /\ db' = [db EXCEPT !.actions =
                        Append(@, [theme_id |-> theme_id, competitor_id |-> comp,
                                   action_type |-> action_type,
                                   status |-> InitialStatus(action_type)])]
            /\ act_pc' = IF action_type = "ignore" THEN "commit" ELSE "generate"
    /\ UNCHANGED disk

\* A generative request: the component that sent it and what it was sent
\* through.
Route(component, via) == [component |-> component, via |-> via]

\* WriterAgent._call_llm: self.client.messages.create, the agent's own
\* anthropic.Anthropic client built in __init__.
WriterEntryPoint == "anthropic_client"

\* EvaluatorAgent._evaluate_with_llm: self.gateway.chat
JudgeEntryPoint == "gateway"

\* `if action_type == "ignore": await db.commit(); return action`
CommitIgnored ==
    /\ act_pc = "commit"
    /\ disk' = db
    /\ act_ret' = "action"
    /\ act_pc' = "done"
    /\ UNCHANGED <<db, act_req, act_id, act_art, act_gen, act_eval, gen_calls, eval_calls, llm_routes,
                   act_count>>

\* generate_artifact and the Artifact row with its flush. An exception leaves
\* the function and the request's session is closed without a commit.
GenerateStep(o) ==
    /\ act_pc = "generate"
    /\ LET g == GenerateArtifact(act_req.action_type, o,
                                 InsightsOfTheme(db, act_req.theme_id))
       IN  /\ act_gen' = g
           /\ gen_calls' = gen_calls + WriterCalls(act_req.action_type)
           /\ llm_routes' = IF act_req.action_type \in WrittenTypes
                            THEN llm_routes \cup {Route("writer", WriterEntryPoint)}
                            ELSE llm_routes
           /\ IF g.kind = "exc"
              THEN /\ db' = disk
                   /\ act_pc' = "raised"
                   /\ UNCHANGED act_art
              ELSE /\ db' = [db EXCEPT !.artifacts =
                               Append(@, [action_id |-> act_id, content |-> g.content,
                                          artifact_type |-> act_req.action_type,
                                          citations |-> g.citations,
                                          accepted |-> FALSE])]
                   /\ act_art' = Len(db.artifacts) + 1
                   /\ act_pc' = "evaluate"
    /\ UNCHANGED <<disk, act_req, act_id, act_eval, eval_calls, act_ret, act_count>>

\* evaluate_artifact, the EvaluationScore row, the status update and the
\* commit.
EvaluateStep(ext, chat, content, sv, rsn) ==
    /\ act_pc = "evaluate"
    /\ LET e == EvaluateArtifact(ext, chat, content, sv, rsn)
       IN  /\ act_eval' = e
           /\ eval_calls' = eval_calls + Len(EvaluateCalls(ext, chat, content, sv))
           /\ llm_routes' =
                  IF \E i \in 1..Len(EvaluateCalls(ext, chat, content, sv)) :
                         EvaluateCalls(ext, chat, content, sv)[i].to = "judge"
                  THEN llm_routes \cup {Route("judge", JudgeEntryPoint)}
                  ELSE llm_routes
           /\ IF e.kind = "exc"
              THEN /\ db' = disk
                   /\ act_pc' = "raised"
                   /\ UNCHANGED act_ret
              ELSE /\ db' = [db EXCEPT
                               !.evals = Append(@, [artifact_id |-> act_art,
                                                    scores |-> e.r.scores,
                                                    overall_score |-> e.r.overall_score,
                                                    flagged |-> e.r.flagged,
                                                    flag_reason |-> e.r.flag_reason]),
                               !.actions[act_id].status =
                                   StatusAfterEvaluation(@, e.r.flagged)]
                   /\ act_ret' = "action"
                   /\ act_pc' = "done"
    /\ disk' = db'
    /\ UNCHANGED <<act_req, act_id, act_art, act_gen, gen_calls, act_count>>

\* The caller has the action, None, or the exception; the next request may
\* start.
ActionReturn ==
    /\ act_pc \in {"done", "raised"}
    /\ act_pc' = "idle"
    /\ UNCHANGED <<act_req, act_id, act_art, act_gen, act_eval, gen_calls, eval_calls, llm_routes,
                   act_ret, act_count>>
    /\ UNCHANGED dbVars

\* ==================================================================
\* Specifications
\* ==================================================================
\* The gateway at rest in its primary + secondary configuration.
GwIdle ==
    /\ GwInit
    /\ gmode = "blaxel"
    /\ ganth = TRUE

\* ---- the ingestion pipeline ----
Init ==
    /\ GwIdle
    /\ EvIdle
    /\ db \in {EmptyDb, SeededDb}
    /\ disk = db
    /\ IngIdle
    /\ ActIdle
    /\ FnIdle

Next ==
    \/ /\ \E comp \in CompetitorIds, urls \in UrlLists, raws \in RawLists :
            IngestSources(comp, urls, raws)
       /\ UNCHANGED <<gwVars, evVars, actVars, fnVars>>
    \/ /\ CreateSourceRow
       /\ UNCHANGED <<gwVars, evVars, actVars, fnVars>>
    \/ /\ \E o \in FetchOutcomes : FetchUrl(o)
       /\ UNCHANGED <<gwVars, evVars, actVars, fnVars>>
    \/ /\ ParseRaw
       /\ UNCHANGED <<gwVars, evVars, actVars, fnVars>>
    \/ /\ CommitSources
       /\ UNCHANGED <<gwVars, evVars, actVars, fnVars>>
    \/ /\ \E comp \in CompetitorIds : IngestPdf(comp)
       /\ UNCHANGED <<gwVars, evVars, actVars, fnVars>>
    \/ /\ \E o \in FetchOutcomes : ExtractPdf(o)
       /\ UNCHANGED <<gwVars, evVars, actVars, fnVars>>
    \/ /\ \E comp \in CompetitorIds, results \in SearchResultLists :
            ResearchAndIngest(comp, results)
       /\ UNCHANGED <<gwVars, evVars, actVars, fnVars>>
    \/ /\ \E o \in FetchOutcomes : ResearchFetch(o)
       /\ UNCHANGED <<gwVars, evVars, actVars, fnVars>>
    \/ /\ StoreFetched
       /\ UNCHANGED <<gwVars, evVars, actVars, fnVars>>
    \/ /\ CommitResearch
       /\ UNCHANGED <<gwVars, evVars, actVars, fnVars>>
    \/ /\ \E chat \in ChatOutcomes(ExtractRequest), content \in ExtractContents,
            list \in InsightLists :
            ExtractStep(chat, content, list)
       /\ UNCHANGED <<gwVars, evVars, actVars, fnVars>>
    \/ /\ \E chat \in ChatOutcomes(ClusterRequest), content \in ArrayContents,
            list \in ThemeLists :
            ClusterStep(chat, content, list)
       /\ UNCHANGED <<gwVars, evVars, actVars, fnVars>>
    \/ /\ IngestReturn
       /\ UNCHANGED <<gwVars, evVars, actVars, fnVars>>

Spec == Init /\ [][Next]_vars

\* ---- the gateway ----
InitGateway ==
    /\ GwInit
    /\ EvIdle
    /\ db = EmptyDb
    /\ disk = db
    /\ IngIdle
    /\ ActIdle
    /\ FnIdle

NextGateway ==
    \/ /\ \E c \in Callers, req \in Requests, so \in BackendOutcomes :
            GwChatDirect(c, req, so)
       /\ UNCHANGED <<evVars, dbVars, ingVars, actVars, fnVars>>
    \/ /\ \E c \in Callers, req \in Requests, po, so \in BackendOutcomes :
            GwChatWarm(c, req, po, so)
       /\ UNCHANGED <<evVars, dbVars, ingVars, actVars, fnVars>>
    \/ /\ \E c \in Callers, req \in Requests : GwChatCold(c, req)
       /\ UNCHANGED <<evVars, dbVars, ingVars, actVars, fnVars>>
    \/ /\ \E c \in Callers, eo \in EnsureOutcomes, po, so \in BackendOutcomes :
            GwResume(c, eo, po, so)
       /\ UNCHANGED <<evVars, dbVars, ingVars, actVars, fnVars>>
    \/ /\ \E c \in Callers : GwReturn(c)
       /\ UNCHANGED <<evVars, dbVars, ingVars, actVars, fnVars>>

SpecGateway == InitGateway /\ [][NextGateway]_vars

\* ---- the evaluator ----
InitEval ==
    /\ GwIdle
    /\ EvInit
    /\ db = EmptyDb
    /\ disk = db
    /\ IngIdle
    /\ ActIdle
    /\ FnIdle

NextEval ==
    /\ \E ext \in ExternalOutcomes, chat \in ChatOutcomes(JudgeRequest),
         content \in JudgeContents :
         Evaluate(ext, chat, content)
    /\ UNCHANGED <<gwVars, dbVars, ingVars, actVars, fnVars>>

SpecEval == InitEval /\ [][NextEval]_vars

\* ---- the action flow ----
InitAction ==
    /\ GwIdle
    /\ EvIdle
    /\ db = SeededDb
    /\ disk = db
    /\ IngIdle
    /\ ActIdle
    /\ FnIdle

NextAction ==
    \/ /\ \E data \in ActionRequests :
            CreateAction(data.theme_id, data.competitor_id, data.action_type)
       /\ UNCHANGED <<gwVars, evVars, ingVars, fnVars>>
    \/ /\ CommitIgnored
       /\ UNCHANGED <<gwVars, evVars, ingVars, fnVars>>
    \/ /\ \E o \in BackendOutcomes : GenerateStep(o)
       /\ UNCHANGED <<gwVars, evVars, ingVars, fnVars>>
    \/ /\ \E ext \in ExternalOutcomes, chat \in ChatOutcomes(JudgeRequest),
            content \in JudgeContents, sv \in ActionScoreVectors,
            rsn \in ActionReasonInputs :
            EvaluateStep(ext, chat, content, sv, rsn)
       /\ UNCHANGED <<gwVars, evVars, ingVars, fnVars>>
    \/ /\ ActionReturn
       /\ UNCHANGED <<gwVars, evVars, ingVars, fnVars>>

SpecAction == InitAction /\ [][NextAction]_vars

\* ------------------------------------------------------------------
\* Deleting a competitor
\* ------------------------------------------------------------------
\* A faulty model of Source.insights: the relationship does not cascade.
InsightsOfSources_NoCascade(d, srcs) == {}

\* Source.insights (cascade "all, delete-orphan"): the Insight rows of the
\* given Source rows.
InsightsOfSources(d, srcs) ==
    {i \in 1..Len(d.insights) : d.insights[i].source_id \in srcs}

\* What session.delete(comp) removes, following the relationships declared
\* with cascade "all, delete-orphan": Competitor.sources, .themes and
\* .actions, Source.insights, Insight.theme_links, Theme.insight_links and
\* .actions, ActionItem.artifact, Artifact.evaluation.
Cascade(d, c) ==
    LET srcs == {i \in 1..Len(d.sources) : d.sources[i].competitor_id = c}
        ins  == InsightsOfSources(d, srcs)
        thms == {i \in 1..Len(d.themes) : d.themes[i].competitor_id = c}
        lnks == {k \in 1..Len(d.links) :
                    d.links[k].theme_id \in thms \/ d.links[k].insight_id \in ins}
        acts == {i \in 1..Len(d.actions) :
                    d.actions[i].competitor_id = c \/ d.actions[i].theme_id \in thms}
        arts == {i \in 1..Len(d.artifacts) : d.artifacts[i].action_id \in acts}
        evs  == {i \in 1..Len(d.evals) : d.evals[i].artifact_id \in arts}
    IN  [competitors |-> {c}, sources |-> srcs, insights |-> ins, themes |-> thms,
         links |-> lnks, actions |-> acts, artifacts |-> arts, evals |-> evs]

\* A delete has been carried out.
Deleted == db.gone.competitors # {}

\* delete_competitor for an existing competitor, with no ingestion or action
\* request in progress: db.get, db.delete, db.commit.
DeleteCompetitor(c) ==
    /\ c \in db.competitors
    /\ ing_pc \in {"idle", "returned"}
    /\ act_pc = "idle"
    /\ db' = [db EXCEPT !.competitors = @ \ {c}, !.gone = Cascade(db, c)]
    /\ disk' = db'

\* Two competitors exist; the first has a source, insights and a theme.
InitCascade ==
    /\ GwIdle
    /\ EvIdle
    /\ db = [SeededDb EXCEPT !.competitors = CompetitorIds]
    /\ disk = db
    /\ IngIdle
    /\ ActIdle
    /\ FnIdle

\* A PDF ingestion and action requests, one request at a time (each request
\* has its own session), then one delete, after which nothing more is done.
\* The backends answer with arrays and the external scorer with one score
\* object: which rows exist afterwards does not depend on more than that.
NextCascade ==
    \/ /\ ~Deleted
       /\ act_pc = "idle"
       /\ \E comp \in CompetitorIds : IngestPdf(comp)
       /\ UNCHANGED <<gwVars, evVars, actVars, fnVars>>
    \/ /\ ~Deleted
       /\ act_pc = "idle"
       /\ CreateSourceRow
       /\ UNCHANGED <<gwVars, evVars, actVars, fnVars>>
    \/ /\ ~Deleted
       /\ act_pc = "idle"
       /\ \E o \in FetchOutcomes : ExtractPdf(o)
       /\ UNCHANGED <<gwVars, evVars, actVars, fnVars>>
    \/ /\ ~Deleted
       /\ act_pc = "idle"
       /\ \E chat \in ChatOutcomes(ExtractRequest), content \in {"array"},
            list \in InsightLists :
            ExtractStep(chat, content, list)
       /\ UNCHANGED <<gwVars, evVars, actVars, fnVars>>
    \/ /\ ~Deleted
       /\ act_pc = "idle"
       /\ \E chat \in ChatOutcomes(ClusterRequest), content \in {"array"},
            list \in ThemeLists :
            ClusterStep(chat, content, list)
       /\ UNCHANGED <<gwVars, evVars, actVars, fnVars>>
    \/ /\ ~Deleted
       /\ act_pc = "idle"
       /\ IngestReturn
       /\ UNCHANGED <<gwVars, evVars, actVars, fnVars>>
    \/ /\ ~Deleted
       /\ ing_pc \in {"idle", "returned"}
       /\ \E data \in ActionRequests :
            CreateAction(data.theme_id, data.competitor_id, data.action_type)
       /\ UNCHANGED <<gwVars, evVars, ingVars, fnVars>>
    \/ /\ CommitIgnored
       /\ UNCHANGED <<gwVars, evVars, ingVars, fnVars>>
    \/ /\ \E o \in BackendOutcomes : GenerateStep(o)
       /\ UNCHANGED <<gwVars, evVars, ingVars, fnVars>>
    \/ /\ \E ext \in {"ok"}, chat \in ChatOutcomes(JudgeRequest),
            content \in {"scores"}, sv \in {ExampleScores},
            rsn \in {[inner |-> "none", outer |-> "none"]} :
            EvaluateStep(ext, chat, content, sv, rsn)
       /\ UNCHANGED <<gwVars, evVars, ingVars, fnVars>>
    \/ /\ ActionReturn
       /\ UNCHANGED <<gwVars, evVars, ingVars, fnVars>>
    \/ /\ \E c \in CompetitorIds : DeleteCompetitor(c)
       /\ UNCHANGED <<gwVars, evVars, ingVars, actVars, fnVars>>

SpecCascade == InitCascade /\ [][NextCascade]_vars

\* ------------------------------------------------------------------
\* The action routes: PATCH, accept, DELETE
\* ------------------------------------------------------------------
\* ActionUpdate.status is Optional[str]: absent ("none"), one of the four
\* documented values, or any other string, for which "archived" stands.
StatusInputs == {"none", "pending", "in_progress", "done", "flagged", "archived"}

\* The ids a request can name: every row that can exist, and one that
\* cannot.
ActionIds == 1..(MaxActions + 1)

\* scalar_one_or_none() / db.get(): the row exists and was not deleted.
ActionFound(d, id) == id \in 1..Len(d.actions) /\ id \notin d.gone.actions

\* action.artifact, 0 when the action has none.
ArtifactOf(d, id) ==
    LET arts == {a \in 1..Len(d.artifacts) :
                    d.artifacts[a].action_id = id /\ a \notin d.gone.artifacts}
    IN  IF arts = {} THEN 0 ELSE CHOOSE a \in arts : TRUE

\* update_action: 404 for an unknown id; otherwise a status that is not
\* None is stored as it came, and the session is committed.
UpdateAction(id, status) ==
    /\ act_pc = "idle"
    /\ IF ActionFound(db, id) /\ status # "none"
       THEN db' = [db EXCEPT !.actions[id].status = status]
       ELSE db' = db
    /\ disk' = db'

\* accept_artifact: 404 without action or artifact; otherwise the flag is
\* stored and an accepted artifact sets the action to done.
AcceptArtifact(id, accepted) ==
    /\ act_pc = "idle"
    /\ IF ActionFound(db, id) /\ ArtifactOf(db, id) # 0
       THEN db' = [db EXCEPT !.artifacts[ArtifactOf(db, id)].accepted = accepted,
                             !.actions[id].status = IF accepted THEN "done" ELSE @]
       ELSE db' = db
    /\ disk' = db'

\* delete_action: the row goes, and with it its artifact and that
\* artifact's evaluation (cascade="all, delete-orphan").
DeleteAction(id) ==
    /\ act_pc = "idle"
    /\ IF ActionFound(db, id)
       THEN LET arts == {a \in 1..Len(db.artifacts) : db.artifacts[a].action_id = id}
                evs  == {v \in 1..Len(db.evals) : db.evals[v].artifact_id \in arts}
            IN  db' = [db EXCEPT !.gone.actions = @ \cup {id},
                                 !.gone.artifacts = @ \cup arts,
                                 !.gone.evals = @ \cup evs]
       ELSE db' = db
    /\ disk' = db'

\* The create requests of this specification: a written kind and ignore.
RouteRequests == {ActionCreate(1, 1, "battlecard"), ActionCreate(1, 1, "ignore")}

InitRoutes ==
    /\ GwIdle
    /\ EvIdle
    /\ db = SeededDb
    /\ disk = db
    /\ IngIdle
    /\ ActIdle
    /\ FnIdle

NextRoutes ==
    \/ /\ \E data \in RouteRequests :
            CreateAction(data.theme_id, data.competitor_id, data.action_type)
       /\ UNCHANGED <<gwVars, evVars, ingVars, fnVars>>
    \/ /\ CommitIgnored
       /\ UNCHANGED <<gwVars, evVars, ingVars, fnVars>>
    \/ /\ \E o \in BackendOutcomes : GenerateStep(o)
       /\ UNCHANGED <<gwVars, evVars, ingVars, fnVars>>
    \/ /\ \E ext \in {"ok"}, chat \in ChatOutcomes(JudgeRequest),
            content \in {"scores"}, sv \in {ExampleScores, LowSafetyScores},
            rsn \in ActionReasonInputs :
            EvaluateStep(ext, chat, content, sv, rsn)
       /\ UNCHANGED <<gwVars, evVars, ingVars, fnVars>>
    \/ /\ ActionReturn
       /\ UNCHANGED <<gwVars, evVars, ingVars, fnVars>>
    \/ /\ \E id \in ActionIds, status \in StatusInputs : UpdateAction(id, status)
       /\ UNCHANGED <<gwVars, evVars, ingVars, actVars, fnVars>>
    \/ /\ \E id \in ActionIds, accepted \in BOOLEAN : AcceptArtifact(id, accepted)
       /\ UNCHANGED <<gwVars, evVars, ingVars, actVars, fnVars>>
    \/ /\ \E id \in ActionIds : DeleteAction(id)
       /\ UNCHANGED <<gwVars, evVars, ingVars, actVars, fnVars>>

SpecRoutes == InitRoutes /\ [][NextRoutes]_vars

\* ---- one call of ClusteringAgent.extract_insights ----
MaxChunks == 2

\* What the backend can do for one chunk; the parsed list matters only
\* when the answer holds an array of objects.
ChunkOutcomes ==
    { o \in { ChunkOutcome(chat, content, list) :
                chat \in ChatOutcomes(ExtractRequest), content \in ExtractContents,
                list \in InsightLists } :
        /\ o.content = "array" \/ o.list = <<>>
        /\ o.chat.kind # "exc" \/ o.content = "nobrackets" }

ApplyExtractInsights ==
    /\ fn_pc = "ready"
    /\ fn_out' = ExtractInsights(fn_in)
    /\ fn_pc' = "done"
    /\ UNCHANGED fn_in

InitExtract ==
    /\ GwIdle
    /\ EvIdle
    /\ db = EmptyDb
    /\ disk = db
    /\ IngIdle
    /\ ActIdle
    /\ fn_pc = "ready"
    /\ fn_in \in SeqsUpTo(ChunkOutcomes, MaxChunks)
    /\ fn_out = NoResult

NextExtract ==
    /\ ApplyExtractInsights
    /\ UNCHANGED <<gwVars, evVars, dbVars, ingVars, actVars>>

SpecExtract == InitExtract /\ [][NextExtract]_vars

\* ---- one call of WriterAgent.generate_artifact ----
MaxInsights == 2

ActionTypes == WrittenTypes \cup {"ignore", "other"}

\* The insights handed to the writer: some with a quote, some without.
EvidenceRows ==
    { [source_id |-> 1, competitor_id |-> 1, draft |-> d] :
        d \in {Draft("a", 1, TRUE), Draft("b", 1, FALSE), Draft("a", 2, TRUE)} }

ApplyGenerateArtifact ==
    /\ fn_pc = "ready"
    /\ fn_out' = [result |-> GenerateArtifact(fn_in.action_type, fn_in.o, fn_in.insights),
                  calls |-> WriterCalls(fn_in.action_type)]
    /\ fn_pc' = "done"
    /\ UNCHANGED fn_in

InitWriter ==
    /\ GwIdle
    /\ EvIdle
    /\ db = EmptyDb
    /\ disk = db
    /\ IngIdle
    /\ ActIdle
    /\ fn_pc = "ready"
    /\ fn_in \in [action_type : ActionTypes, o : BackendOutcomes,
                   insights : SeqsUpTo(EvidenceRows, MaxInsights)]
    /\ fn_out = NoResult

NextWriter ==
    /\ ApplyGenerateArtifact
    /\ UNCHANGED <<gwVars, evVars, dbVars, ingVars, actVars>>

SpecWriter == InitWriter /\ [][NextWriter]_vars

\* ---- one call of CollectorAgent.research_competitor ----
MaxSuggested == 3

NUM_RESULTS == 8

\* num_results: the default, which the pipeline uses, and two smaller ones.
NumResultsValues == {0, 4, NUM_RESULTS}

Entry(url, origin) == [url |-> url, origin |-> origin]

\* _build_known_urls: six entries whose URLs differ for every name.
BuildKnownUrls ==
    << Entry("own_www", "known"), Entry("own", "known"), Entry("trustradius", "known"),
       Entry("peerspot", "known"), Entry("reddit", "known"), Entry("techcrunch", "known") >>

\* An element of the array the backend suggests: an object with an http
\* URL, an object whose URL does not start with http, something that is
\* not an object, or an object whose URL is not a string.
Suggestion(url, form) == [url |-> url, form |-> form]

Suggestions ==
    { Suggestion("trustradius", "http"), Suggestion("blog", "http"),
      Suggestion("status", "http"), Suggestion("pricing", "http"),
      Suggestion("mailto", "nothttp"), Suggestion("none", "notdict"),
      Suggestion("none", "nonstring") }

SUGGEST_MAX_TOKENS == 2048

SuggestRequest == [prompt |-> "suggest", max_tokens |-> SUGGEST_MAX_TOKENS, system |-> "none"]

\* What the suggestion call can do.
SuggestOutcomes ==
    { o \in [chat : ChatOutcomes(SuggestRequest), content : ArrayContents,
             list : SeqsUpTo(Suggestions, MaxSuggested)] :
        /\ o.content = "array" \/ o.list = <<>>
        /\ o.chat.kind # "exc" \/ o.content = "nobrackets" }

\* _ask_claude_for_urls: everything runs inside one try block, so a failed
\* call, unparsable text and a URL that is not a string all give [].
AskClaudeForUrls(o) ==
    IF o.chat.kind = "exc" \/ o.content # "array" THEN <<>>
    ELSE IF \E i \in 1..Len(o.list) : o.list[i].form = "nonstring" THEN <<>>
    ELSE LET valid == SelectSeq(o.list, LAMBDA u : u.form = "http")
         IN  [i \in 1..Len(valid) |-> Entry(valid[i].url, "suggested")]

\* A faulty variant: every candidate is kept.
KeepUnseen_All(entries, seen) == entries

\* `if entry["url"] not in seen_urls`, over the candidates in order.
RECURSIVE KeepUnseen(_, _)
KeepUnseen(entries, seen) ==
    IF entries = <<>> THEN <<>>
    ELSE IF Head(entries).url \in seen THEN KeepUnseen(Tail(entries), seen)
    ELSE <<Head(entries)>> \o KeepUnseen(Tail(entries), seen \cup {Head(entries).url})

\* research_competitor: known entries, then suggested ones, cut to
\* num_results.
ResearchCompetitor(o, num_results) ==
    Take(KeepUnseen(BuildKnownUrls \o AskClaudeForUrls(o), {}), num_results)

ApplyResearchCompetitor ==
    /\ fn_pc = "ready"
    /\ fn_out' = [kind |-> "list", list |-> ResearchCompetitor(fn_in.o, fn_in.num_results)]
    /\ fn_pc' = "done"
    /\ UNCHANGED fn_in

InitDiscovery ==
    /\ GwIdle
    /\ EvIdle
    /\ db = EmptyDb
    /\ disk = db
    /\ IngIdle
    /\ ActIdle
    /\ fn_pc = "ready"
    /\ fn_in \in [o : SuggestOutcomes, num_results : NumResultsValues]
    /\ fn_out = NoResult

NextDiscovery ==
    /\ ApplyResearchCompetitor
    /\ UNCHANGED <<gwVars, evVars, dbVars, ingVars, actVars>>

SpecDiscovery == InitDiscovery /\ [][NextDiscovery]_vars

\* ---- one call of CollectorAgent.chunk_text, iteration by iteration ----
MaxWordBlocks == 60

\* The word counts tried: multiples of 50 and their successors, so that the
\* chunk size, the stride and their neighbours are among them.
WordCounts == {50 * k + d : k \in 0..MaxWordBlocks, d \in {0, 1}}

\* A faulty variant: the loop is left after its first iteration.
ChunkDone_AfterFirst(start, n) == TRUE

\* `while start < len(words)` and `if start >= len(words): break`
ChunkDone(start, n) == start >= n

\* start = end - self.CHUNK_OVERLAP
NextStart(end) == end - CHUNK_OVERLAP

\* words = text.split(); a short text is returned whole, otherwise the
\* loop is entered with start = 0.
ChunkEnter ==
    /\ fn_pc = "ready"
    /\ IF fn_in <= CHUNK_SIZE
       THEN /\ fn_pc' = "done"
            /\ fn_out' = [kind |-> "list", start |-> 0,
                          chunks |-> <<[from |-> 0, to |-> fn_in]>>]
       ELSE /\ fn_pc' = "loop"
            /\ fn_out' = [kind |-> "loop", start |-> 0, chunks |-> <<>>]
    /\ UNCHANGED fn_in

\* One iteration of the while loop.
ChunkIterate ==
    /\ fn_pc = "loop"
    /\ LET end == fn_out.start + CHUNK_SIZE
           chunk == [from |-> fn_out.start, to |-> Min(end, fn_in)]
           done == ChunkDone(NextStart(end), fn_in)
       IN  /\ fn_out' = [kind |-> IF done THEN "list" ELSE "loop",
                         start |-> NextStart(end),
                         chunks |-> Append(fn_out.chunks, chunk)]
           /\ fn_pc' = IF done THEN "done" ELSE "loop"
    /\ UNCHANGED fn_in

InitChunk ==
    /\ GwIdle
    /\ EvIdle
    /\ db = EmptyDb
    /\ disk = db
    /\ IngIdle
    /\ ActIdle
    /\ fn_pc = "ready"
    /\ fn_in \in WordCounts
    /\ fn_out = NoResult

NextChunk ==
    \/ /\ ChunkEnter
       /\ UNCHANGED <<gwVars, evVars, dbVars, ingVars, actVars>>
    \/ /\ ChunkIterate
       /\ UNCHANGED <<gwVars, evVars, dbVars, ingVars, actVars>>

\* The call runs on without being suspended: chunk_text has no await.
SpecChunk == InitChunk /\ [][NextChunk]_vars /\ WF_vars(NextChunk)

\* ==================================================================
\* Properties
\* ==================================================================
Last(seq) == seq[Len(seq)]

\* The call of caller c is over, the gateway runs primary + secondary, and the
\* call reached the secondary backend (which it does only after the primary
\* path raised).
FailedOver(c) ==
    /\ gpc[c] = "done"
    /\ gmode = "blaxel"
    /\ ganth
    /\ gcalls[c] # <<>>
    /\ Last(gcalls[c]).backend = "anthropic"

\* C1: in the primary + secondary configuration, when the primary path raises
\* and the secondary backend answers, chat() returns the secondary's text
\* (stripped) and raises nothing; when the secondary raises too, the caller
\* gets the secondary's exception, not the primary's.
C1_FailoverResult ==
    \A c \in Callers :
        FailedOver(c) =>
            IF Last(gcalls[c]).outcome = "err"
            THEN gres[c] = [kind |-> "exc", by |-> "anthropic"]
            ELSE gres[c] = [kind |-> "text",
                            text |-> [by |-> "anthropic", answers |-> greq[c].prompt,
                                      padded |-> FALSE]]

\* One caller whose two backends both raised, another whose primary raised
\* and whose secondary answered.
C1_Witness ==
    \E c1, c2 \in Callers :
        /\ FailedOver(c1)
        /\ Len(gcalls[c1]) = 2
        /\ gcalls[c1][1].backend = "blaxel"
        /\ gcalls[c1][1].outcome = "err"
        /\ gcalls[c1][2].outcome = "err"
        /\ gres[c1].kind = "exc"
        /\ FailedOver(c2)
        /\ gcalls[c2][1].outcome = "err"
        /\ Last(gcalls[c2]).outcome = "padded"
        /\ gres[c2].kind = "text"

\* Neither scorer produced scores: the external one is off or failed, and the
\* judge raised or answered something that could not be read or processed.
BothPathsFailed(calls) ==
    /\ calls # <<>>
    /\ Last(calls).to = "judge"
    /\ Last(calls).outcome \in {"exception", "unparsable", "overflow"}

\* C2: evaluate_artifact returns a result for every combination of external
\* and judge outcomes and never raises; when neither path produced scores the
\* result is exactly: five rubrics 0.5, overall 0.5, flagged, and the reason
\* that evaluation failed and manual review is required.
C2_EvaluateNeverThrows ==
    ev_pc = "done" =>
        /\ ev_result.kind = "result"
        /\ BothPathsFailed(ev_calls) =>
              /\ \A m \in RubricSet : ev_result.r.scores[m] = 500
              /\ ev_result.r.overall_score = 500
              /\ ev_result.r.flagged
              /\ ev_result.r.flag_reason.k = "failed_manual_review"

\* The external scorer failed, then the judge's call raised.
C2_Witness ==
    /\ ev_pc = "done"
    /\ Len(ev_calls) = 2
    /\ ev_calls[1] = [to |-> "whitecircle", outcome |-> "fail"]
    /\ ev_calls[2] = [to |-> "judge", outcome |-> "exception"]
    /\ ev_result.kind = "result"
    /\ ev_result.r.flagged

\* C3: as claimed, flagged holds exactly when some clamped rubric is not
\* strictly above its threshold, so that a value equal to the threshold
\* flags.
C3_FlaggedUnlessStrictlyAbove ==
    (ev_pc = "done" /\ ev_result.kind = "result") =>
        (ev_result.r.flagged <=>
            \E m \in RubricSet : ev_result.r.scores[m] <= EVAL_THRESHOLDS[m])

\* C4: as claimed, every finished ingestion call (ingest, PDF, research)
\* handed back a summary tagged success, warning or error, whatever the
\* fetches and the generative backends did.
C4_AlwaysSummary ==
    ing_pc \in {"done", "raised"} =>
        /\ ing_pc = "done"
        /\ summary.status \in {"success", "warning", "error"}

\* The createAction call is over, for an existing theme and a kind other
\* than "ignore".
ArtifactCallOver ==
    /\ act_pc \in {"done", "raised"}
    /\ act_req.action_type # "ignore"
    /\ act_req.theme_id \in 1..Len(SeededDb.themes)

\* The ids of the Artifact rows of an action, and of the EvaluationScore
\* rows of an artifact.
ArtifactsOf(d, action_id) ==
    {i \in 1..Len(d.artifacts) : d.artifacts[i].action_id = action_id}

EvalsOf(d, artifact_id) ==
    {i \in 1..Len(d.evals) : d.evals[i].artifact_id = artifact_id}

\* C5: createAction with a kind other than "ignore" on an existing theme
\* ends, whatever the generation call and the scorers did, with the new
\* ActionItem committed together with exactly one Artifact for it and exactly
\* one EvaluationScore for that Artifact.
C5_OneArtifactOneEvaluation ==
    ArtifactCallOver =>
        /\ act_pc = "done"
        /\ act_ret = "action"
        /\ act_id \in 1..Len(disk.actions)
        /\ Cardinality(ArtifactsOf(disk, act_id)) = 1
        /\ \A a \in ArtifactsOf(disk, act_id) : Cardinality(EvalsOf(disk, a)) = 1

\* The generation call failed and neither scorer produced scores: the error
\* text and the default scores are what was committed.
C5_Witness ==
    /\ ArtifactCallOver
    /\ act_pc = "done"
    /\ act_req.action_type = "battlecard"
    /\ gen_calls = 1
    /\ eval_calls = 2
    /\ act_art \in 1..Len(disk.artifacts)
    /\ disk.artifacts[act_art].content = "error_text"
    /\ \E e \in EvalsOf(disk, act_art) :
          disk.evals[e].flag_reason.k = "failed_manual_review"

\* C6: an ActionItem created with kind "ignore" has status "done" in every
\* state in which it exists, no Artifact (hence no EvaluationScore) belongs to
\* it, and its call issues neither a generation nor an evaluation call.
C6_IgnoreIsDoneAndBare ==
    (act_req.action_type = "ignore" /\ act_id \in 1..Len(db.actions)) =>
        /\ db.actions[act_id].status = "done"
        /\ ArtifactsOf(db, act_id) = {}
        /\ gen_calls = 0
        /\ eval_calls = 0
        /\ act_pc = "done" =>
              /\ act_id \in 1..Len(disk.actions)
              /\ disk.actions[act_id].status = "done"
              /\ ArtifactsOf(disk, act_id) = {}

\* An ignored action committed after an earlier action got its artifact.
C6_Witness ==
    /\ act_pc = "done"
    /\ act_req.action_type = "ignore"
    /\ act_id = 2
    /\ disk.actions[act_id].status = "done"
    /\ Len(disk.artifacts) = 1
    /\ Len(disk.evals) = 1

\* C7: when createAction for a kind other than "ignore" returns its action,
\* the ActionItem's status is "flagged" exactly when the committed
\* EvaluationScore is flagged, and "pending" otherwise.
C7_StatusFollowsVerdict ==
    (act_pc = "done" /\ act_ret = "action" /\ act_req.action_type # "ignore") =>
        /\ EvalsOf(disk, act_art) # {}
        /\ \A e \in EvalsOf(disk, act_art) :
              disk.actions[act_id].status =
                  IF disk.evals[e].flagged THEN "flagged" ELSE "pending"

\* Two calls have returned: the first action stayed pending, the second was
\* flagged.
C7_Witness ==
    /\ act_pc = "done"
    /\ act_ret = "action"
    /\ act_id = 2
    /\ act_art = 2
    /\ disk.actions[1].status = "pending"
    /\ ~disk.evals[1].flagged
    /\ disk.actions[2].status = "flagged"
    /\ disk.evals[2].flagged

\* The items of an ingest run whose own fetch or parse ended as `o`.
ItemsWith(o) == {i \in 1..Len(ing_outcomes) : ing_outcomes[i] = o}

\* C8: in ingest, each processed item's Source row mirrors that item's own
\* outcome (done, or failed with an error message) whatever its siblings
\* did, and once the loops are over every input item has been attempted.
C8_FailureIsolation ==
    ing_kind = "ingest" =>
        /\ Len(ing_outcomes) <= Len(ing_rows)
        /\ \A i \in 1..Len(ing_outcomes) :
              LET row == db.sources[ing_rows[i]]
              IN  IF ing_outcomes[i] = "ok"
                  THEN row.status = "done" /\ row.error_message = "none"
                  ELSE row.status = "failed" /\ row.error_message # "none"
        /\ ing_pc \in {"commit", "extract", "cluster", "done", "raised", "returned"} =>
              Len(ing_outcomes) = Len(ing_items)

\* A failed URL between two items that succeeded.
C8_Witness ==
    /\ ing_kind = "ingest"
    /\ ing_pc = "commit"
    /\ Len(ing_items) = 3
    /\ ing_outcomes = <<"ok", "fail", "ok">>
    /\ ing_items[3].type = "raw"
    /\ db.sources[ing_rows[2]].status = "failed"
    /\ db.sources[ing_rows[3]].status = "done"

\* C9: as claimed, the status of ingest's summary: without content, "error"
\* if an item failed and "warning" if none did; with content, "success" if
\* at least one insight was extracted and "warning" if none was.
C9_SummaryStatus ==
    (ing_kind = "ingest" /\ ing_pc = "done" /\ ing_comp \in db.competitors) =>
        summary.status =
            IF ItemsWith("ok") = {}
            THEN (IF ItemsWith("fail") # {} THEN "error" ELSE "warning")
            ELSE (IF Len(insight_objects) >= 1 THEN "success" ELSE "warning")

\* The entry of the summary's message for a failed item.
NamesItem(entry, it) ==
    IF it.type = "url" THEN entry.kind = "URL" /\ entry.url = it.url
    ELSE entry.kind = "Raw text"

\* C10: in ingest's summary sources_created is the number of the run's Source
\* rows that ended done, and the message carries one entry per failed item,
\* in order, a failed URL's entry naming that URL; also when the status is
\* success.
C10_CountsAndErrors ==
    (ing_kind = "ingest" /\ ing_pc = "done") =>
        LET doneRows == {i \in 1..Len(ing_rows) : disk.sources[ing_rows[i]].status = "done"}
            failed == SelectSeq([i \in 1..Len(ing_rows) |-> i],
                                LAMBDA i : disk.sources[ing_rows[i]].status = "failed")
        IN  /\ summary.sources_created = Cardinality(doneRows)
            /\ Len(summary.message.errors) = Len(failed)
            /\ \A k \in 1..Len(failed) :
                  NamesItem(summary.message.errors[k], ing_items[failed[k]])

\* One URL failed, one raw text was stored, and the run ended in success.
C10_Witness ==
    /\ ing_kind = "ingest"
    /\ ing_pc = "done"
    /\ summary.status = "success"
    /\ Len(ing_items) = 2
    /\ ing_outcomes = <<"fail", "ok">>
    /\ ing_items[1].type = "url"
    /\ summary.sources_created = 1
    /\ Len(summary.message.errors) = 1

\* The Source rows of the run, as the committed tables hold them.
RunSourcesCommitted ==
    \A i \in 1..Len(ing_rows) :
        /\ ing_rows[i] \in 1..Len(disk.sources)
        /\ disk.sources[ing_rows[i]].status \in {"done", "failed"}

\* C11: from the moment the insight-extraction call is about to be issued,
\* every Source row of the run (ingest, PDF, research) is committed with
\* status done or failed.
C11_SourcesCommittedBeforeExtraction ==
    (ing_pc = "extract" \/ ing_llm # <<>>) => RunSourcesCommitted

\* An ingest run about to extract, with one row failed and one done.
C11_Witness ==
    /\ ing_kind = "ingest"
    /\ ing_pc = "extract"
    /\ ing_llm = <<>>
    /\ Len(ing_rows) = 2
    /\ ing_outcomes = <<"fail", "ok">>
    /\ disk.sources[ing_rows[1]].status = "failed"
    /\ disk.sources[ing_rows[2]].status = "done"

\* C12: as claimed, when the theme-clustering call is about to be issued, and
\* after it failed, every Insight row of the run is in the committed tables.
C12_InsightsCommittedBeforeClustering ==
    (ing_pc \in {"cluster", "raised"}) =>
        \A i \in 1..Len(insight_objects) : insight_objects[i] \in 1..Len(disk.insights)

\* The ids of the Theme rows the finished run persisted, and the positions of
\* the join rows of one theme.
RunThemes == (Len(disk.themes) - themes_created + 1)..Len(disk.themes)

LinkRowsOf(d, theme_id) == {k \in 1..Len(d.links) : d.links[k].theme_id = theme_id}

\* C13: as claimed, every Theme row a run persisted stores as frequency the
\* number of join rows created for it.
C13_FrequencyIsLinkCount ==
    ing_pc = "done" =>
        \A t \in RunThemes :
            disk.themes[t].frequency = Cardinality(LinkRowsOf(disk, t))

\* C14: as claimed, after a clustering pass that persisted at least one
\* theme, every Insight row of the run is linked to a Theme of the run.
C14_EveryInsightLinked ==
    (ing_pc = "done" /\ themes_created >= 1) =>
        \A i \in 1..Len(insight_objects) :
            \E t \in RunThemes :
                \E k \in LinkRowsOf(disk, t) :
                    disk.links[k].insight_id = insight_objects[i]

\* How often index i occurs among the member indices of a draft.
Occurrences(indices, i) == Cardinality({k \in 1..Len(indices) : indices[k] = i})

\* The rows a table gained in a step.
Gained(before, after) == SubSeq(after, Len(before) + 1, Len(after))

\* C15: the step that persists the themes appends one Theme row per returned
\* draft, and for draft j and index i one join row (theme j, i-th insight of
\* the run) per occurrence of i when 0 <= i < number of insights, and no row
\* for any other index; nothing is raised and the run ends with a summary.
C15_IndexTranslation ==
    [][(ing_pc = "cluster" /\ ing_pc' = "done") =>
        LET n == Len(insight_objects)
            base == Len(db.themes)
            news == Gained(db.links, disk'.links)
        IN  /\ Len(disk'.themes) = base + Len(raw_themes')
            /\ summary'.themes_generated = Len(raw_themes')
            /\ \A j \in 1..Len(raw_themes') :
                  /\ disk'.themes[base + j].competitor_id = ing_comp
                  /\ \A i \in 0..(n - 1) :
                        Cardinality({k \in 1..Len(news) :
                                        news[k] = [theme_id |-> base + j,
                                                   insight_id |-> insight_objects[i + 1]]})
                            = Occurrences(raw_themes'[j].insight_indices, i)
            /\ \A k \in 1..Len(news) :
                  /\ news[k].theme_id \in (base + 1)..(base + Len(raw_themes'))
                  /\ \E i \in 1..n : news[k].insight_id = insight_objects[i]
    ]_vars

\* Two themes persisted from drafts whose indices include 7 and -1 while the
\* run has two insights: two join rows exist.
C15_Witness ==
    /\ ing_pc = "done"
    /\ Len(insight_objects) = 2
    /\ Len(raw_themes) = 2
    /\ raw_themes[2].insight_indices = <<1, 7, -1>>
    /\ themes_created = 2
    /\ Cardinality(LinkRowsOf(disk, Len(disk.themes))) = 1
    /\ Cardinality(LinkRowsOf(disk, Len(disk.themes) - 1)) = 1

\* The result handed back was built from the scores of the last scorer
\* called: that scorer answered with a scores object.
ScoresReturned ==
    /\ ev_pc = "done"
    /\ ev_calls # <<>>
    /\ Last(ev_calls).outcome \in {"ok", "success", "overflow"}

\* The result handed back is the processed answer of a scorer.
ScoresProcessed ==
    /\ ev_pc = "done"
    /\ ev_calls # <<>>
    /\ Last(ev_calls).outcome \in {"ok", "success"}

\* max(0.0, min(1.0, v)) for a numeric v, 0.5 for a non-numeric or missing one.
ClampedValue(val) ==
    CASE val.k = "num" -> Max(0, Min(1000, val.v))
      [] val.k = "huge" -> 1000
      [] OTHER -> 500

\* C16: as claimed, whenever a scorer answered with a scores object, every
\* stored rubric is the scorer's value clamped to [0, 1] (0.5 for a
\* non-numeric or missing value).
C16_StoredIsClamped ==
    ScoresReturned =>
        \A m \in RubricSet : ev_result.r.scores[m] = ClampedValue(ev_scores[m])

\* The weighted sum of the stored rubrics, in millionths, with the weights
\* 0.25, 0.25, 0.2, 0.2, 0.1.
WeightedMicro(sc) ==
    250 * sc.relevance + 250 * sc.evidence_coverage + 200 * sc.hallucination_risk
        + 200 * sc.actionability + 100 * sc.freshness

\* C17: the overall score of a processed scorer answer is the weighted sum
\* of the stored rubrics rounded to three decimals, lies in [0, 1], and is
\* 0.77 for the rubrics 0.8, 0.6, 0.9, 0.7, 1.0.
C17_OverallIsWeightedSum ==
    ScoresProcessed =>
        LET r == ev_result.r
            micro == WeightedMicro(r.scores)
        IN  /\ r.overall_score \in 0..1000
            /\ 2 * (1000 * r.overall_score - micro) <= 1000
            /\ 2 * (micro - 1000 * r.overall_score) <= 1000
            /\ (ev_scores = ExampleScores => r.overall_score = 770)

C17_Witness ==
    /\ ScoresProcessed
    /\ ev_scores = ExampleScores
    /\ ev_result.r.overall_score = 770

\* No flag reason came with the scorer's answer.
NoReasonSupplied ==
    /\ ev_reason.inner \in {"none", "empty"}
    /\ Last(ev_calls).to = "whitecircle" => ev_reason.outer \in {"none", "empty"}

C19_ClientCreatedOnce == clients_created <= 1

\* C20: as claimed, every generative request of an action call, the
\* writer's and the judge's, is sent through the gateway's entry point.
C20_AllThroughGateway == \A r \in llm_routes : r.via = "gateway"

\* C21: as claimed, a create-action request whose theme id or competitor id
\* does not exist persists no ActionItem, Artifact or EvaluationScore and
\* issues no generation or evaluation call.
C21_UnknownIdsRejected ==
    (/\ act_pc # "idle"
     /\ \/ act_req.theme_id \notin 1..Len(db.themes)
        \/ act_req.competitor_id \notin db.competitors)
        => /\ act_id = 0
           /\ act_art = 0
           /\ gen_calls = 0
           /\ eval_calls = 0

\* The positions of the requests a finished call sent to a backend.
AttemptsTo(c, backend) ==
    {i \in 1..Len(gcalls[c]) : gcalls[c][i].backend = backend}

\* The primary path of a finished proxied call raised: its request failed,
\* or the client set-up failed before any request was sent.
PrimaryRaised(c) ==
    \/ AttemptsTo(c, "blaxel") = {}
    \/ gcalls[c][1].outcome = "err"

\* C28: within one chat() call in proxied mode the primary is tried first and
\* at most once (exactly once when the client set-up succeeds); the secondary
\* is tried at most once, exactly when the primary path raised and a direct
\* client is configured, with the same prompt, max_tokens and system; a
\* primary that answered is never followed by the secondary; with no direct
\* client the primary's exception reaches the caller. In direct mode the
\* single backend is tried once.
C28_CallSequence ==
    \A c \in Callers :
        gpc[c] = "done" =>
            IF gmode = "anthropic"
            THEN /\ Len(gcalls[c]) = 1
                 /\ gcalls[c][1].backend = "anthropic"
            ELSE /\ AttemptsTo(c, "blaxel") \subseteq {1}
                 /\ Cardinality(AttemptsTo(c, "anthropic")) <= 1
                 /\ Len(gcalls[c]) <= 2
                 /\ (AttemptsTo(c, "anthropic") # {}) <=> (ganth /\ PrimaryRaised(c))
                 /\ \A i \in 1..Len(gcalls[c]) :
                        /\ gcalls[c][i].kwargs.content = greq[c].prompt
                        /\ gcalls[c][i].kwargs.max_tokens = greq[c].max_tokens
                        /\ gcalls[c][i].kwargs.system = gcalls[c][1].kwargs.system
                 /\ (~PrimaryRaised(c)) =>
                        /\ gcalls[c] = <<Attempt("blaxel", greq[c], gcalls[c][1].outcome)>>
                        /\ gres[c].kind = "text"
                        /\ gres[c].text.by = "blaxel"
                 /\ (PrimaryRaised(c) /\ ~ganth) =>
                        /\ gres[c].kind = "exc"
                        /\ gres[c].by \in {"blaxel", "ensure"}

\* A proxied call whose primary raised and whose secondary was then sent the
\* same prompt, budget and system prompt.
C28_Witness ==
    \E c \in Callers :
        /\ gpc[c] = "done"
        /\ gmode = "blaxel"
        /\ greq[c].system = "sys"
        /\ Len(gcalls[c]) = 2
        /\ gcalls[c][1].backend = "blaxel"
        /\ gcalls[c][1].outcome = "err"
        /\ gcalls[c][2].backend = "anthropic"
        /\ gcalls[c][2].kwargs.system = "sys"
        /\ gcalls[c][2].kwargs.max_tokens = 1024

\* The positions of the calls evaluate_artifact made to a scorer.
CallsTo(scorer) == {i \in 1..Len(ev_calls) : ev_calls[i].to = scorer}

\* C29: a configured external scorer is called first and once; when it
\* succeeds its result is returned and the judge is not called; the judge is
\* called, once, exactly when the external scorer is not configured or its
\* call failed.
C29_StrategyOrdering ==
    ev_pc = "done" =>
        /\ CallsTo("whitecircle") = (IF whitecircle_enabled THEN {1} ELSE {})
        /\ Cardinality(CallsTo("judge")) <= 1
        /\ (CallsTo("judge") # {}) <=>
               (~whitecircle_enabled \/ ev_calls[1].outcome # "ok")
        /\ (whitecircle_enabled /\ ev_calls[1].outcome = "ok") =>
               /\ ev_calls = <<[to |-> "whitecircle", outcome |-> "ok"]>>
               /\ ev_result = EvalReturned(ProcessWhitecircleResponse(ev_scores, ev_reason))

\* The external scorer failed and the judge was called after it and
\* produced the result.
C29_Witness ==
    /\ ev_pc = "done"
    /\ whitecircle_enabled
    /\ ev_calls = <<[to |-> "whitecircle", outcome |-> "fail"],
                    [to |-> "judge", outcome |-> "success"]>>
    /\ ev_result = EvalReturned(ProcessScores(ev_scores, ev_reason))

\* The chunks chunk_text produced for one Source of the run, in order.
ChunksOfSource(id) ==
    SelectSeq(all_chunks, LAMBDA c : c.source_id = id /\ c.url # "search_snippets")

\* The number of words two word ranges share.
Overlap(a, b) == Max(0, Min(a.to, b.to) - Max(a.from, b.from))

\* C23: as claimed, the chunks of a text start at its first word, hold at
\* most CHUNK_SIZE words each, every consecutive pair overlaps by
\* CHUNK_OVERLAP words, and a later chunk without its first CHUNK_OVERLAP
\* words continues exactly where the chunk before it ended.
C23_ChunkerContract ==
    \A id \in 1..Len(db.sources) :
        LET cs == ChunksOfSource(id)
        IN  cs # <<>> =>
                /\ cs[1].chunk.from = 0
                /\ \A i \in 1..Len(cs) : cs[i].chunk.to - cs[i].chunk.from <= CHUNK_SIZE
                /\ \A i \in 1..(Len(cs) - 1) :
                       /\ Overlap(cs[i].chunk, cs[i + 1].chunk) = CHUNK_OVERLAP
                       /\ Max(cs[i + 1].chunk.from + CHUNK_OVERLAP, cs[i].chunk.to)
                              = cs[i].chunk.to

\* The drafts collected by the extraction call of the run.
CollectedDrafts ==
    LET i == CHOOSE i \in 1..Len(ing_llm) : ing_llm[i].call = "extract"
    IN  ing_llm[i].collected

Extracted ==
    \E i \in 1..Len(ing_llm) :
        /\ ing_llm[i].call = "extract"
        /\ \A k \in 1..Len(ing_llm[i].collected) : IsObject(ing_llm[i].collected[k])

\* The first 80 characters of the lower-cased, trimmed text.
TrimmedTextKey(d) == Take(Lower(StripText(TextOf(d))), KEY_PREFIX)

\* The lower-cased, trimmed form of the first 80 characters of the text.
PrefixKey(d) == StripText(Lower(Take(TextOf(d), KEY_PREFIX)))

FirstOccurrences(in) ==
    {i \in 1..Len(in) : \A j \in 1..(i - 1) : PrefixKey(in[j]) # PrefixKey(in[i])}

C22_OnlyRedactedText ==
    /\ \A i \in 1..Len(db.sources) : ~db.sources[i].raw_content.pii
    /\ \A i \in 1..Len(ing_llm) :
           \A k \in 1..Len(ing_llm[i].chunks) : ~ing_llm[i].chunks[k].pii

\* The search results whose page fetch has been attempted so far.
FetchAttempted ==
    IF ing_kind # "research" THEN {}
    ELSE IF ing_pc = "rfetch" THEN 1..(ing_idx - 1)
    ELSE 1..Min(Len(search_results), MAX_FETCH)

\* C25: as claimed, in every ingestion variant an item whose fetch or parse
\* has been attempted has a Source row created for it before the attempt,
\* and an item whose fetch or parse failed has a Source row in failed state
\* with an error message.
C25_RowBeforeAttempt ==
    /\ Len(ing_outcomes) <= Len(ing_rows)
    /\ \A i \in 1..Len(ing_outcomes) :
           ing_outcomes[i] = "fail" =>
               /\ db.sources[ing_rows[i]].status = "failed"
               /\ db.sources[ing_rows[i]].error_message # "none"
    /\ \A i \in FetchAttempted :
           \E k \in 1..Len(ing_rows) : db.sources[ing_rows[k]].url = search_results[i].url

\* The tables as they were before the run: the first Source row is the
\* run's own exactly when the run started on empty tables.
BeforeRun ==
    IF disk.sources # <<>> /\ 1 \notin Range(ing_rows) THEN SeededDb ELSE EmptyDb

SummaryReturned == ing_pc \in {"done", "returned"} /\ summary.status # "none"

\* C27: whenever an ingestion entry point hands back a summary, its
\* insights_extracted is the number of Insight rows and its themes_generated
\* the number of Theme rows the run added to the committed tables.
C27_CountsAreCommittedRows ==
    SummaryReturned =>
        /\ summary.insights_extracted = Len(disk.insights) - Len(BeforeRun.insights)
        /\ summary.themes_generated = Len(disk.themes) - Len(BeforeRun.themes)

\* A run on seeded tables that reported two insights and two themes.
C27_Witness ==
    /\ SummaryReturned
    /\ BeforeRun = SeededDb
    /\ summary.insights_extracted = 2
    /\ summary.themes_generated = 2
    /\ Len(disk.insights) = 4
    /\ Len(disk.themes) = 3

\* One step leaves the Source rows that exist in a permitted way: a row in
\* a terminal state is not touched, a processing row stays or becomes done
\* or failed, and no row disappears.
SourceStepAllowed ==
    /\ Len(db'.sources) >= Len(db.sources)
    /\ \A i \in 1..Len(db.sources) :
           IF db.sources[i].status \in {"done", "failed"}
           THEN db'.sources[i] = db.sources[i]
           ELSE /\ db.sources[i].status = "processing"
                /\ db'.sources[i].status \in {"processing", "done", "failed"}

\* C30: a Source of the pipeline moves only from processing to done or to
\* failed and is never changed once it is done or failed; when a summary is
\* handed back every Source of the run is done or failed.
C30_SourceLifecycle ==
    /\ [](SummaryReturned =>
             \A i \in 1..Len(ing_rows) :
                 db.sources[ing_rows[i]].status \in {"done", "failed"})
    /\ [][SourceStepAllowed]_vars

\* A summary was handed back for a run with a failed and a done Source.
C30_Witness ==
    /\ SummaryReturned
    /\ ing_pc = "returned"
    /\ \E i, j \in 1..Len(ing_rows) :
           /\ db.sources[ing_rows[i]].status = "failed"
           /\ db.sources[ing_rows[j]].status = "done"

\* The rows of a table that are still there.
Live(table) == {i \in 1..Len(db[table]) : i \notin db.gone[table]}

\* The competitor an ActionItem row names, and the one its theme names.
OwnersOfAction(i) ==
    {db.actions[i].competitor_id}
        \cup (IF db.actions[i].theme_id \in 1..Len(db.themes)
              THEN {db.themes[db.actions[i].theme_id].competitor_id} ELSE {})

\* C26: after a competitor has been deleted, no Source, Insight, Theme,
\* ThemeInsight, ActionItem, Artifact or EvaluationScore row that belonged to
\* it is left, whatever ingestion and action requests were completed before.
C26_CascadingDelete ==
    \A c \in db.gone.competitors :
        /\ c \notin db.competitors
        /\ \A i \in Live("sources") : db.sources[i].competitor_id # c
        /\ \A i \in Live("insights") :
               /\ db.insights[i].competitor_id # c
               /\ db.sources[db.insights[i].source_id].competitor_id # c
        /\ \A i \in Live("themes") : db.themes[i].competitor_id # c
        /\ \A k \in Live("links") :
               /\ db.themes[db.links[k].theme_id].competitor_id # c
               /\ db.insights[db.links[k].insight_id].competitor_id # c
        /\ \A i \in Live("actions") : c \notin OwnersOfAction(i)
        /\ \A i \in Live("artifacts") : c \notin OwnersOfAction(db.artifacts[i].action_id)
        /\ \A i \in Live("evals") :
               c \notin OwnersOfAction(db.artifacts[db.evals[i].artifact_id].action_id)

\* Competitor 1 was deleted after an ingestion added insights and themes for
\* it and an evaluated artifact was created on one of its themes; rows of
\* all seven kinds went with it.
C26_Witness ==
    /\ db.gone.competitors = {1}
    /\ Cardinality(db.gone.sources) >= 2
    /\ Cardinality(db.gone.insights) >= 3
    /\ Cardinality(db.gone.themes) >= 2
    /\ db.gone.links # {}
    /\ db.gone.actions # {}
    /\ db.gone.artifacts # {}
    /\ db.gone.evals # {}

\* The positions, in processing order, of the run's Source rows that are done.
DonePositions == {k \in 1..Len(ing_rows) : db.sources[ing_rows[k]].status = "done"}

\* C31: every Insight row of the run names one Source, the first Source of
\* the run in processing order that reached done, and that Source has the
\* Insight's competitor.
C31_InsightOwner ==
    \A i \in 1..Len(insight_objects) :
        insight_objects[i] \in 1..Len(db.insights) =>
            LET ins == db.insights[insight_objects[i]]
            IN  /\ DonePositions # {}
                /\ \A k \in DonePositions :
                       (\A j \in DonePositions : k <= j) => ins.source_id = ing_rows[k]
                /\ db.sources[ins.source_id].competitor_id = ins.competitor_id

\* A batch run whose first item failed and whose second and third were
\* stored: its insights belong to the second Source.
C31_Witness ==
    /\ ing_kind = "ingest"
    /\ Len(ing_rows) = 3
    /\ ing_outcomes = <<"fail", "ok", "ok">>
    /\ Len(insight_objects) = 2
    /\ Len(db.insights) >= insight_objects[2]
    /\ db.insights[insight_objects[1]].source_id = ing_rows[2]
    /\ db.insights[insight_objects[2]].source_id = ing_rows[2]

\* The positions of the run's requests of one kind in the request log.
RequestsOf(call) == {i \in 1..Len(ing_llm) : ing_llm[i].call = call}

\* C32: a run sends at most one extraction request, built from the first
\* chunks in source order and from at most ten of them, and at most one
\* clustering request, which carries the whole insight list; with no
\* insight extracted no clustering request is sent and no theme is persisted.
C32_BoundedBackendCalls ==
    /\ Cardinality(RequestsOf("extract")) <= 1
    /\ Cardinality(RequestsOf("cluster")) <= 1
    /\ \A i \in RequestsOf("extract") :
           LET n == Len(ing_llm[i].chunks)
           IN  /\ n <= 10
               /\ n = (IF Len(all_chunks) < 10 THEN Len(all_chunks) ELSE 10)
               /\ \A k \in 1..n : ing_llm[i].chunks[k] = all_chunks[k]
    /\ \A i \in RequestsOf("cluster") :
           /\ ing_llm[i].insights = raw_insights
           /\ raw_insights # <<>>
           /\ RequestsOf("extract") # {}
    /\ (SummaryReturned /\ RequestsOf("extract") # {} /\ raw_insights = <<>>) =>
           /\ RequestsOf("cluster") = {}
           /\ summary.themes_generated = 0
           /\ Len(disk.themes) = Len(BeforeRun.themes)

\* A run with more than ten chunks that sent ten of them, and then a
\* clustering request with its two insights.
C32_Witness ==
    /\ Len(all_chunks) > 10
    /\ Len(ing_llm) = 2
    /\ ing_llm[1].call = "extract"
    /\ Len(ing_llm[1].chunks) = 10
    /\ ing_llm[2].call = "cluster"
    /\ Len(ing_llm[2].insights) = 2


\* The chunks whose call returned an answer holding a JSON array.
Succeeded(o) == o.chat.kind # "exc" /\ o.content \in {"array", "scalars"}

\* C33: extract_insights never raises, and what it returns is built from
\* the elements of every chunk that succeeded, failed chunks adding nothing.
C33_ChunkIsolation ==
    fn_pc = "done" =>
        /\ fn_out.kind = "list"
        /\ fn_out.list = Dedup(CollectedAll(fn_in), {})
        /\ \A i \in 1..Len(fn_in) :
              ~Succeeded(fn_in[i]) =>
                  Collected(fn_in[i].chat, fn_in[i].content, fn_in[i].list) = <<>>


\* The drafts of the insights that carry a quote, in input order.
RECURSIVE QuotedDrafts(_)
QuotedDrafts(insights) ==
    IF insights = <<>> THEN <<>>
    ELSE (IF Head(insights).draft.quote THEN <<Head(insights).draft>> ELSE <<>>)
            \o QuotedDrafts(Tail(insights))

\* C34: a successful generation cites exactly the insights that have a
\* quote, in input order, whatever text came back; a failed generation
\* returns an error description and no citation; a kind without a prompt
\* makes no generation call and has no citation.
C34_Citations ==
    fn_pc = "done" =>
        LET r == fn_out.result
        IN  /\ r.kind = "artifact"
            /\ (fn_in.action_type \in WrittenTypes /\ fn_in.o # "err") =>
                    /\ r.citations = QuotedDrafts(fn_in.insights)
                    /\ r.content = "generated"
                    /\ fn_out.calls = 1
            /\ (fn_in.action_type \in WrittenTypes /\ fn_in.o = "err") =>
                    /\ r.content = "error_text"
                    /\ r.citations = <<>>
            /\ fn_in.action_type \notin WrittenTypes =>
                    /\ fn_out.calls = 0
                    /\ r.citations = <<>>

C34_Witness ==
    /\ fn_pc = "done"
    /\ fn_in.action_type = "battlecard"
    /\ fn_in.o = "padded"
    /\ Len(fn_in.insights) = 2
    /\ Len(fn_out.result.citations) = 1
    /\ fn_out.result.citations[1] = fn_in.insights[2].draft


\* The suggestion call gave nothing usable: it raised or its answer held
\* no parsable array.
SuggestionFailed == fn_in.o.chat.kind = "exc" \/ fn_in.o.content # "array"

\* C35: discovery returns a list; its URLs are pairwise distinct, no
\* suggested entry stands before a known one, it has at most num_results
\* entries, and when the suggestion call fails it is the known entries.
C35_Discovery ==
    fn_pc = "done" =>
        LET r == fn_out.list
        IN  /\ fn_out.kind = "list"
            /\ \A i, j \in 1..Len(r) : i # j => r[i].url # r[j].url
            /\ \A i, j \in 1..Len(r) :
                  (r[i].origin = "suggested" /\ r[j].origin = "known") => j < i
            /\ Len(r) <= fn_in.num_results
            /\ SuggestionFailed =>
                  r = SubSeq(BuildKnownUrls, 1, Min(Len(BuildKnownUrls), fn_in.num_results))

C35_Witness ==
    /\ fn_pc = "done"
    /\ fn_in.num_results = NUM_RESULTS
    /\ Len(fn_in.o.list) = 3
    /\ fn_in.o.list[1].url = "trustradius"
    /\ Len(fn_out.list) = NUM_RESULTS
    /\ fn_out.list[NUM_RESULTS].origin = "suggested"


\* C36: as claimed, every search result within the fetch limit that has a
\* snippet ends up with a Source row of its own and with text among the
\* chunks collected for extraction, whether its page could be fetched or
\* not; and no more than MAX_FETCH pages are fetched, each once.
C36_SnippetFoldedIn ==
    /\ (ing_kind = "research" /\ ing_pc = "rfetch") => ing_idx <= MAX_FETCH
    /\ (ing_kind = "research" /\ ing_pc = "extract") =>
          \A i \in FetchAttempted :
              search_results[i].snippet.chars > 0 =>
                  /\ \E k \in Range(ing_rows) :
                        disk.sources[k].url = search_results[i].url
                  /\ \E c \in 1..Len(all_chunks) :
                        all_chunks[c].url = search_results[i].url


\* C37: as claimed, whatever create, update, accept and delete requests
\* have been served, every ActionItem row that exists has one of the four
\* documented statuses.
C37_StatusDomain ==
    \A i \in 1..Len(disk.actions) :
        ActionFound(disk, i) =>
            disk.actions[i].status \in {"pending", "in_progress", "done", "flagged"}


\* C38: as claimed, in every evaluation result, whichever scorer or
\* fallback produced it, the flag reason is non-empty exactly when the
\* result is flagged.
C38_ReasonIffFlagged ==
    (ev_pc = "done" /\ ev_result.kind = "result") =>
        (ev_result.r.flagged <=> ev_result.r.flag_reason.k \notin {"none", "empty"})


\* C39: as claimed, when a scorer's answer carrying its reason inside the
\* scores object has been processed, the result is what either processing,
\* the judge's and the external scorer's, makes of the same rubric values
\* and the same reason.
C39_PathIndependent ==
    (ScoresProcessed /\ ev_reason.outer = "none") =>
        /\ ev_result.r = ProcessScores(ev_scores, ev_reason)
        /\ ev_result.r = ProcessWhitecircleResponse(ev_scores, ev_reason)


\* The loop went from one iteration to the next.
Iterated == fn_pc = "loop" /\ fn_pc' \in {"loop", "done"}

\* C40: with CHUNK_OVERLAP < CHUNK_SIZE, chunk_text returns for every word
\* count: every iteration moves start strictly forward, the call reaches its
\* return, and the last chunk it returns ends at the last word.
C40_ChunkTerminates ==
    /\ CHUNK_OVERLAP < CHUNK_SIZE
    /\ [][Iterated => fn_out'.start > fn_out.start]_vars
    /\ <>(fn_pc = "done")
    /\ [](fn_pc = "done" =>
            /\ fn_out.chunks # <<>>
            /\ Last(fn_out.chunks).to = fn_in
            /\ fn_out.chunks = ChunkText([chars |-> 0, words |-> fn_in, pii |-> FALSE]))

C40_Witness ==
    /\ fn_pc = "done"
    /\ fn_in = 1451
    /\ Len(fn_out.chunks) = 3
    /\ fn_out.chunks[3] = [from |-> 1400, to |-> 1451]

====
